---------------------------- MODULE Spec2Model ----------------------------
(***************************************************************************)
(* Block-processing state machines of pyo's trigger objects                *)
(* (src/trunk/src/objects/trigmodule.c).                                    *)
(*                                                                         *)
(* Every object is one record variable holding the fields of its C struct, *)
(* next to the buffers it reads and writes.  One action is one call of a   *)
(* method of the object; a compute step consumes a whole input block of    *)
(* BufSize samples, exactly as the generator's for-loop does.              *)
(*                                                                         *)
(* Each object has its own specification (SpecCounter, SpecThresh, ...):   *)
(* the objects do not share state, so the variables of the objects a       *)
(* specification does not run stay at their idle value.                    *)
(*                                                                         *)
(* Sample values are floats in the source.  Trigger inputs are modelled as *)
(* integers in units of 1/Unit, so that Unit is the sample 1.0 and the     *)
(* alphabet holds 0, a fraction, 1.0 and 2.0.                              *)
(***************************************************************************)
EXTENDS Integers, Sequences, FiniteSets, TLC

(* ------------------------------ bounds --------------------------------- *)
\* samples per block (self->bufsize)
BufSize == 2
\* samples and random draws are counted in units of 1/Unit: Unit is the
\* trigger sample 1.0 and the random draw 1.0
Unit == 2
\* Counter: min, max and the setters' arguments range over 0..MaxCount
MaxCount == 2
\* control calls (setters) followed in one run of an object
MaxSets == 1
\* Thresh: the input and the threshold range over the levels 0..MaxLevel
MaxLevel == 2
\* TrigRand, TrigChoice: port times are counted in units of 1/PortDen sample
\* and reach MaxStep samples
PortDen == 4
MaxStep == 3
\* TrigRand, TrigChoice: triggers followed in one run of an object
MaxTrigs == 2

VARIABLES
    counter,    \* Counter struct: min, max, dir, direction, tmp, value
    cdata,      \* Counter: self->data after the last compute step
    chist,      \* Counter: observer.  ones: the samples of the last input
                \* block that held 1.0; react: the samples of that block on
                \* which the trigger branch ran; prev: the last values
                \* emitted before that block, kept while no setter has been
                \* called; nset: the setter calls so far
    thresh,     \* Thresh struct: dir, ready, modebuffer[0] (mode), threshold
    tdata,      \* Thresh: self->data after the last compute step
    thist,      \* Thresh: observer of the last compute step and of the input
                \* so far (see ThreshObserve); nset: the setter calls so far
    trigrand,   \* TrigRand struct: min, max, value, currentValue, time,
                \* timeStep, stepVal, timeCount
    trdata,     \* TrigRand: self->data after the last compute step
    trhist,     \* TrigRand: observer of the glide (see GlideObserve)
    trigchoice, \* TrigChoice struct: chSize, choice, value, currentValue,
                \* time, timeStep, stepVal, timeCount
    tcdata,     \* TrigChoice: self->data after the last compute step
    tchist,     \* TrigChoice: observer of the glide (see GlideObserve)
    tcset,      \* TrigChoice: observer of setChoice.  err: what the last
                \* setChoice call reported; choice, chSize, procs: the list
                \* and the bound functions before that call; trig: the last
                \* block with a trigger came after a refused call and read
                \* inside the list
    xnoise,     \* TrigXnoise struct: type, type_func_ptr, x1, x2, xx1, xx2,
                \* value, lastPoissonX1, poisson_tab, poisson_buffer,
                \* walkerValue and the loop fields (numbers in thousandths)
    xdata,      \* TrigXnoise: self->data after the last compute step
    xhist,      \* TrigXnoise: observer of the draws (see PoissonObserve)
    midi,       \* TrigXnoiseMidi struct: the fields of TrigXnoise that the
                \* modelled distributions read, scale, range_min,
                \* range_max, centralkey
    mdata,      \* TrigXnoiseMidi: self->data after the last compute step
    mhist,      \* TrigXnoiseMidi: observer of the last trigger (see MidiHist0)
    trigenv,    \* TrigEnv struct: dur, current_dur, inc, pointerPos, active,
                \* trigsBuffer (durations in samples, positions in 1/PosDen)
    tedata,     \* TrigEnv: self->data after the last compute step
    tehist,     \* TrigEnv: observer of the last block (see EnvHist0)
    trigfunc,   \* TrigFunc struct: func
    tflog,      \* TrigFunc: the calls of the callback made by the last compute
                \* step, in the order made
    tfhist,     \* TrigFunc: observer (see FuncHist0)
    hilbert,    \* HilbertMain struct: x1, y1, buffer_streams
    htap,       \* Hilbert taps: per chnl, self->data after the last compute
                \* step
    hhist,      \* Hilbert: observer (see HilbertHist0)
    rhist,      \* TrigRand: observer of the range (see RangeHist0)
    envtrig,    \* TrigEnvTrig: self->data after the last compute step
    tphist,     \* TrigEnvTrig: observer (see TapHist0)
    twin,       \* Thresh: two objects on one input (see TwinCreate)
    ixhist,     \* TrigChoice: observer of the indices (see IndexHist0)
    bind,       \* per class (TrigRand, TrigXnoise, TrigEnv, Hilbert,
                \* TrigChoice): the
                \* modebuffer, proc_func_ptr and muladd_func_ptr of its object
    bhist       \* observer of the last parameter setter calls (see BindObserve)

counterVars == <<counter, cdata, chist>>

threshVars == <<thresh, tdata, thist>>

trigrandVars == <<trigrand, trdata, trhist>>

trigchoiceVars == <<trigchoice, tcdata, tchist, tcset>>

xnoiseVars == <<xnoise, xdata, xhist>>

midiVars == <<midi, mdata, mhist>>

envVars == <<trigenv, tedata, tehist>>

bindVars == <<bind, bhist>>

funcVars == <<trigfunc, tflog, tfhist>>

\* the objects modelled after TrigEnv
hilbertVars == <<hilbert, htap, hhist>>

\* the objects modelled after TrigEnv
rangeVars == <<rhist>>

tapVars == <<envtrig, tphist>>

twinVars == <<twin>>

indexVars == <<ixhist>>

auxVars ==
    <<funcVars, hilbertVars, rangeVars, tapVars, twinVars, indexVars>>

vars ==
    <<counterVars, threshVars, trigrandVars, trigchoiceVars, xnoiseVars,
      midiVars, envVars, bindVars, auxVars>>

\* what a method of one object leaves alone: every other object
CounterOnly ==
    UNCHANGED <<threshVars, trigrandVars, trigchoiceVars, xnoiseVars, midiVars,
               envVars, bindVars, auxVars>>

ThreshOnly ==
    UNCHANGED <<counterVars, trigrandVars, trigchoiceVars, xnoiseVars, midiVars,
               envVars, bindVars, auxVars>>

TrigRandOnly ==
    UNCHANGED <<counterVars, threshVars, trigchoiceVars, xnoiseVars, midiVars,
               envVars, bindVars, auxVars>>

TrigChoiceOnly ==
    UNCHANGED <<counterVars, threshVars, trigrandVars, xnoiseVars, midiVars,
               envVars, bindVars, auxVars>>

\* what a parameter setter leaves alone besides its own object's parameter
BindOnly ==
    UNCHANGED <<counterVars, threshVars, trigchoiceVars, midiVars, trdata,
                trhist, xdata, xhist, tedata, tehist, auxVars>>

(* ------------------------------ helpers -------------------------------- *)
Abs(n) == IF n < 0 THEN -n ELSE n

Indices == 1..BufSize

\* the values an input sample takes: 0, 1/Unit, 1.0, 2.0
InVals == {0, 1, Unit, 2 * Unit}

Blocks(S) == [Indices -> S]

ZeroBlock == [i \in Indices |-> 0]

\* 2^24: above it a float no longer holds every integer
FloatExact == 16777216

RECURSIVE FloatUlp(_)
FloatUlp(a) == IF a < FloatExact THEN 1 ELSE 2 * FloatUlp(a \div 2)

\* (float)n for a long n: round to a 24-bit significand, ties to even
ToFloat(n) ==
    LET a == Abs(n)
        u == FloatUlp(a)
        q == a \div u
        r == a % u
        up == (2 * r > u) \/ (2 * r = u /\ q % 2 = 1)
        m == (IF up THEN q + 1 ELSE q) * u
    IN  IF n < 0 THEN -m ELSE m

\* the trigger test of every generator: in[i] == 1
IsTrig_Level(x) == x >= Unit

IsTrig(x) == x = Unit

(* ------------------------------ Counter -------------------------------- *)
CountVals == 0..MaxCount

\* dir as PyArg "i" / setDir take it: any int; 3 stands for the unhandled ones
DirVals == {0, 1, 2, 3}

\* Counter_new followed by Counter_init, before its first compute step
CounterCreate(mi, ma, d) ==
    [min |-> mi, max |-> ma, dir |-> d, direction |-> 1,
     tmp |-> IF d = 0 \/ d = 2 THEN mi ELSE ma,
     value |-> 0]

\* dir == 0: forward
CounterForward_NoWrap(c) ==
    [c EXCEPT !.value = ToFloat(c.tmp), !.tmp = c.tmp + 1]

CounterForward(c) ==
    [c EXCEPT !.value = ToFloat(c.tmp),
              !.tmp = IF c.tmp + 1 > c.max THEN c.min ELSE c.tmp + 1]

\* dir == 1: backward
CounterBackward_NoWrap(c) ==
    [c EXCEPT !.value = ToFloat(c.tmp), !.tmp = c.tmp - 1]

CounterBackward(c) ==
    [c EXCEPT !.value = ToFloat(c.tmp),
              !.tmp = IF c.tmp - 1 < c.min THEN c.max ELSE c.tmp - 1]

\* dir == 2: back and forth
CounterPingPong_NoTurn(c) ==
    [c EXCEPT !.value = ToFloat(c.tmp), !.tmp = c.tmp + c.direction]

CounterPingPong(c) ==
    LET t == c.tmp + c.direction
    IN  IF t >= c.max
        THEN [c EXCEPT !.value = ToFloat(c.tmp), !.direction = -1, !.tmp = t - 1]
        ELSE IF t <= c.min
        THEN [c EXCEPT !.value = ToFloat(c.tmp), !.direction = 1, !.tmp = t + 1]
        ELSE [c EXCEPT !.value = ToFloat(c.tmp), !.tmp = t]

\* the body of the for-loop of Counter_generates for one sample x
CounterSample(c, x) ==
    IF ~IsTrig(x) THEN c
    ELSE IF c.dir = 0 THEN CounterForward(c)
    ELSE IF c.dir = 1 THEN CounterBackward(c)
    ELSE IF c.dir = 2 THEN CounterPingPong(c)
    ELSE c

\* Counter_generates from sample i on: the struct, the data written and the
\* samples on which the trigger branch ran
RECURSIVE CounterRun(_, _, _, _, _)
CounterRun(c, in, i, data, react) ==
    IF i > BufSize THEN [c |-> c, data |-> data, react |-> react]
    ELSE LET c2 == CounterSample(c, in[i])
         IN  CounterRun(c2, in, i + 1, [data EXCEPT ![i] = c2.value],
                        IF IsTrig(in[i]) THEN react \cup {i} ELSE react)

Counter_generates(c, in, data) == CounterRun(c, in, 1, data, {})

\* the samples of an input block that hold 1.0
Ones(in) == {i \in Indices : in[i] = Unit}

\* the values the block emitted on its trigger samples (samples equal to 1.0)
RECURSIVE EmitsFrom(_, _, _)
EmitsFrom(ones, data, i) ==
    IF i > BufSize THEN <<>>
    ELSE IF i \in ones THEN <<data[i]>> \o EmitsFrom(ones, data, i + 1)
    ELSE EmitsFrom(ones, data, i + 1)

Emits == EmitsFrom(chist.ones, cdata, 1)

\* the last two values of a sequence
LastTwo(s) == IF Len(s) <= 2 THEN s ELSE SubSeq(s, Len(s) - 1, Len(s))

\* every value emitted that the observer still holds, oldest first
Emitted == chist.prev \o Emits

CounterInit ==
    /\ \E mi \in CountVals, ma \in CountVals, d \in DirVals :
           counter = CounterCreate(mi, ma, d)
    /\ cdata = ZeroBlock
    /\ chist = [ones |-> {}, react |-> {}, prev |-> <<>>, nset |-> 0]

CounterIdle ==
    /\ counter = CounterCreate(0, 0, 0)
    /\ cdata = ZeroBlock
    /\ chist = [ones |-> {}, react |-> {}, prev |-> <<>>, nset |-> 0]

\* Counter_compute_next_data_frame on the input block in (mul = 1, add = 0)
Counter_compute_next_data_frame ==
    \E in \in Blocks(InVals) :
        LET r == Counter_generates(counter, in, cdata)
        IN  /\ CounterOnly
            /\ counter' = r.c
            /\ cdata' = r.data
            /\ chist' = [chist EXCEPT
                   !.prev = IF chist.nset > 0 THEN <<>> ELSE LastTwo(Emitted),
                   !.ones = Ones(in),
                   !.react = r.react]

Counter_setMin ==
    \E v \in CountVals :
        /\ CounterOnly
        /\ chist.nset < MaxSets
        /\ counter' = [counter EXCEPT !.min = v]
        /\ chist' = [chist EXCEPT !.nset = chist.nset + 1, !.prev = <<>>]
        /\ UNCHANGED cdata

Counter_setMax ==
    \E v \in CountVals :
        /\ CounterOnly
        /\ chist.nset < MaxSets
        /\ counter' = [counter EXCEPT !.max = v]
        /\ chist' = [chist EXCEPT !.nset = chist.nset + 1, !.prev = <<>>]
        /\ UNCHANGED cdata

Counter_setDir ==
    \E d \in DirVals :
        /\ CounterOnly
        /\ chist.nset < MaxSets
        /\ counter' = [counter EXCEPT !.dir = d]
        /\ chist' = [chist EXCEPT !.nset = chist.nset + 1, !.prev = <<>>]
        /\ UNCHANGED cdata

(* -------------- Counter: setter calls that keep min <= max -------------- *)
\* Counter(input, min, max, dir) with min <= max
CounterOrderedInit ==
    /\ \E mi \in CountVals, ma \in CountVals, d \in DirVals :
           /\ mi <= ma
           /\ counter = CounterCreate(mi, ma, d)
    /\ cdata = ZeroBlock
    /\ chist = [ones |-> {}, react |-> {}, prev |-> <<>>, nset |-> 0]

\* Counter_setMin, Counter_setMax with a value that leaves min <= max
Counter_setMin_ordered ==
    \E v \in CountVals :
        /\ v <= counter.max
        /\ CounterOnly
        /\ chist.nset < MaxSets
        /\ counter' = [counter EXCEPT !.min = v]
        /\ chist' = [chist EXCEPT !.nset = chist.nset + 1, !.prev = <<>>]
        /\ UNCHANGED cdata

Counter_setMax_ordered ==
    \E v \in CountVals :
        /\ counter.min <= v
        /\ CounterOnly
        /\ chist.nset < MaxSets
        /\ counter' = [counter EXCEPT !.max = v]
        /\ chist' = [chist EXCEPT !.nset = chist.nset + 1, !.prev = <<>>]
        /\ UNCHANGED cdata

NextCounterOrdered ==
    \/ Counter_compute_next_data_frame
    \/ Counter_setMin_ordered
    \/ Counter_setMax_ordered
    \/ Counter_setDir

(* ------------------------------- Thresh -------------------------------- *)
Levels == 0..MaxLevel

\* the values a threshold takes: the generators only compare in[i] with the
\* threshold, and the input reaches both sides of either of these two
ThrLevels == {MaxLevel - 1, MaxLevel}

\* Thresh_setProcMode: the switch on modebuffer[0] (mode), without default
Thresh_setProcMode_Stale(th) == th

Thresh_setProcMode(th) ==
    IF th.mode = 0 THEN [th EXCEPT !.proc_func_ptr = "Thresh_generates_i"]
    ELSE IF th.mode = 1 THEN [th EXCEPT !.proc_func_ptr = "Thresh_generates_a"]
    ELSE th

\* Thresh_new followed by Thresh_init, before its first compute step:
\* threshold is a number (mode 0) or a stream (mode 1)
ThreshCreate(t, mo, d) ==
    Thresh_setProcMode(
        [dir |-> d, ready |-> 1, mode |-> mo, proc_func_ptr |-> "none",
         threshold |-> IF mo = 0 THEN t ELSE 0])

\* case 0 of both generators, one sample: x the input, t the threshold
ThreshUp_Level(ready, x, t) ==
    IF x > t THEN [ready |-> 0, out |-> 1]
    ELSE [ready |-> 1, out |-> 0]

ThreshUp_Inclusive(ready, x, t) ==
    IF x >= t /\ ready = 1 THEN [ready |-> 0, out |-> 1]
    ELSE IF x < t /\ ready = 0 THEN [ready |-> 1, out |-> 0]
    ELSE [ready |-> ready, out |-> 0]

ThreshUp(ready, x, t) ==
    IF x > t /\ ready = 1 THEN [ready |-> 0, out |-> 1]
    ELSE IF x <= t /\ ready = 0 THEN [ready |-> 1, out |-> 0]
    ELSE [ready |-> ready, out |-> 0]

\* case 1 of both generators
ThreshDown(ready, x, t) ==
    IF x < t /\ ready = 1 THEN [ready |-> 0, out |-> 1]
    ELSE IF x >= t /\ ready = 0 THEN [ready |-> 1, out |-> 0]
    ELSE [ready |-> ready, out |-> 0]

\* case 2 of Thresh_generates_i
ThreshBoth_i(ready, x, t) ==
    IF x > t /\ ready = 1 THEN [ready |-> 0, out |-> 1]
    ELSE IF x <= t /\ ready = 0 THEN [ready |-> 1, out |-> 1]
    ELSE [ready |-> ready, out |-> 0]

\* case 2 of Thresh_generates_a: the else-if has no braces, so ready = 1 is
\* assigned on every sample, after the if/else-if
ThreshBoth_a(ready, x, t) ==
    IF x > t /\ ready = 1 THEN [ready |-> 1, out |-> 1]
    ELSE IF x <= t /\ ready = 0 THEN [ready |-> 1, out |-> 1]
    ELSE [ready |-> 1, out |-> 0]

\* the switch on self->dir; stream tells the generator (a or i)
ThreshSample(dir, stream, ready, x, t) ==
    IF dir = 0 THEN ThreshUp(ready, x, t)
    ELSE IF dir = 1 THEN ThreshDown(ready, x, t)
    ELSE IF stream THEN ThreshBoth_a(ready, x, t)
    ELSE ThreshBoth_i(ready, x, t)

\* the for-loop of a generator from sample i on; thr[i] is the threshold of
\* sample i.  No case of the switch matches a dir outside 0..2: nothing runs.
RECURSIVE ThreshRun(_, _, _, _, _, _)
ThreshRun(th, stream, in, thr, i, data) ==
    IF i > BufSize \/ th.dir \notin {0, 1, 2} THEN [th |-> th, data |-> data]
    ELSE LET r == ThreshSample(th.dir, stream, th.ready, in[i], thr[i])
         IN  ThreshRun([th EXCEPT !.ready = r.ready], stream, in, thr, i + 1,
                       [data EXCEPT ![i] = r.out])

\* float thresh = PyFloat_AS_DOUBLE(self->threshold): the same on every sample
Thresh_generates_i(th, in, data) ==
    ThreshRun(th, FALSE, in, [i \in Indices |-> th.threshold], 1, data)

Thresh_generates_a(th, in, thr, data) ==
    ThreshRun(th, TRUE, in, thr, 1, data)

\* (*self->proc_func_ptr)(self): the generator Thresh_setProcMode bound
Thresh_proc(th, in, thr, data) ==
    IF th.proc_func_ptr = "Thresh_generates_i"
    THEN Thresh_generates_i(th, in, data)
    ELSE Thresh_generates_a(th, in, thr, data)

(* The observer of Thresh.  Of the last compute step: dir and ready0, the  *)
(* dir it ran with and the latch it started from; eq, the samples whose    *)
(* input equalled the threshold; cross, the sample (0: none) on which an   *)
(* input that had been <= the threshold all along first exceeded it; dbl,  *)
(* whether a pulse was written while the input had stayed strictly on one  *)
(* side of the threshold since the pulse before.  Over the whole input:    *)
(* step, "below" while every sample was <= the threshold, "above" once it  *)
(* crossed and stayed above, "broken" otherwise; run, the side the input   *)
(* has stayed on since the last pulse ("none": it left it, or no pulse);   *)
(* wrote, the samples of self->data the last compute step assigned (all of *)
(* them before the first step: Thresh_new has just filled the buffer).     *)
Side(x, t) == IF x > t THEN "above" ELSE IF x < t THEN "below" ELSE "at"

RECURSIVE ThreshObserve(_, _, _, _, _)
ThreshObserve(h, in, thr, data, i) ==
    IF i > BufSize THEN h
    ELSE LET sd == Side(in[i], thr[i])
             pulse == data[i] = 1
             step2 == IF h.step = "below"
                      THEN (IF sd = "above" THEN "above" ELSE "below")
                      ELSE IF h.step = "above" /\ sd = "above" THEN "above"
                      ELSE "broken"
             h2 == [h EXCEPT
                      !.step = step2,
                      !.cross = IF h.step = "below" /\ step2 = "above"
                                THEN i ELSE h.cross,
                      !.eq = IF sd = "at" THEN h.eq \cup {i} ELSE h.eq,
                      !.dbl = h.dbl \/ (pulse /\ sd # "at" /\ h.run = sd),
                      !.run = IF pulse THEN (IF sd = "at" THEN "none" ELSE sd)
                              ELSE IF h.run = sd THEN h.run ELSE "none"]
         IN  ThreshObserve(h2, in, thr, data, i + 1)

\* a mark no generator writes, and the samples of a marked block that the
\* bound generator assigns
Stale == -1

ThreshWrites(th, in, thr) ==
    {i \in Indices :
        Thresh_proc(th, in, thr, [j \in Indices |-> Stale]).data[i] # Stale}

ThreshHist0 ==
    [dir |-> 0, ready0 |-> 1, eq |-> {}, cross |-> 0, dbl |-> FALSE,
     step |-> "below", run |-> "none", nset |-> 0, wrote |-> Indices]

ThreshInit ==
    /\ \E t \in ThrLevels, mo \in {0, 1}, d \in DirVals :
           thresh = ThreshCreate(t, mo, d)
    /\ tdata = ZeroBlock
    /\ thist = ThreshHist0

ThreshIdle ==
    /\ thresh = ThreshCreate(0, 0, 0)
    /\ tdata = ZeroBlock
    /\ thist = ThreshHist0

\* Thresh_compute_next_data_frame on the input block in; thr is the block of
\* the threshold stream (in mode 0: the constant threshold on every sample)
Thresh_compute_next_data_frame ==
    \E in \in Blocks(Levels),
       thr \in IF thresh.proc_func_ptr = "Thresh_generates_i"
               THEN {[i \in Indices |-> thresh.threshold]}
               ELSE Blocks(ThrLevels) :
        LET r == Thresh_proc(thresh, in, thr, tdata)
        IN  /\ ThreshOnly
            /\ thresh' = r.th
            /\ tdata' = r.data
            /\ thist' = ThreshObserve(
                   [thist EXCEPT !.dir = thresh.dir, !.ready0 = thresh.ready,
                                 !.eq = {}, !.cross = 0, !.dbl = FALSE,
                                 !.wrote = ThreshWrites(thresh, in, thr)],
                   in, thr, r.data, 1)

\* Thresh_setThreshold with a number, or with an object that has a stream
Thresh_setThreshold ==
    /\ ThreshOnly
    /\ thist.nset < MaxSets
    /\ \/ \E t \in ThrLevels :
              thresh' = Thresh_setProcMode(
                            [thresh EXCEPT !.threshold = t, !.mode = 0])
       \/ thresh' = Thresh_setProcMode(
                         [thresh EXCEPT !.threshold = 0, !.mode = 1])
    /\ thist' = [thist EXCEPT !.nset = thist.nset + 1, !.step = "broken"]
    /\ UNCHANGED tdata

Thresh_setDir ==
    \E d \in DirVals :
        /\ ThreshOnly
        /\ thist.nset < MaxSets
        /\ thresh' = [thresh EXCEPT !.dir = d]
        /\ thist' = [thist EXCEPT !.nset = thist.nset + 1, !.step = "broken"]
        /\ UNCHANGED tdata

NextThresh ==
    \/ Thresh_compute_next_data_frame
    \/ Thresh_setThreshold
    \/ Thresh_setDir

(* ------------- parameter tags and the variants bound to them ------------ *)
(* modebuffer[0] and [1] hold the tags of mul and add, modebuffer[2] and    *)
(* [3] those of the object's own parameters: 0 a number, 1 a stream, and 2  *)
(* for mul and add only.  proc_func_ptr and muladd_func_ptr hold the name   *)
(* of the function bound, "none" before the first setProcMode.              *)
Classes == {"TrigRand", "TrigXnoise", "TrigEnv", "Hilbert", "TrigChoice"}

BindNew ==
    [modebuffer |-> [k \in 0..3 |-> 0],
     proc_func_ptr |-> "none", muladd_func_ptr |-> "none"]

\* switch (muladdmode) of the setProcMode functions of trigmodule.c
MulAddSwitch_Transposed(key, old) ==
    CASE key = 0 -> "postprocessing_ii"
      [] key = 1 -> "postprocessing_ia"
      [] key = 2 -> "postprocessing_ireva"
      [] key = 10 -> "postprocessing_ai"
      [] key = 11 -> "postprocessing_aa"
      [] key = 12 -> "postprocessing_areva"
      [] key = 20 -> "postprocessing_revai"
      [] key = 21 -> "postprocessing_revaa"
      [] key = 22 -> "postprocessing_revareva"
      [] OTHER -> old

MulAddSwitch(key, old) ==
    CASE key = 0 -> "postprocessing_ii"
      [] key = 1 -> "postprocessing_ai"
      [] key = 2 -> "postprocessing_revai"
      [] key = 10 -> "postprocessing_ia"
      [] key = 11 -> "postprocessing_aa"
      [] key = 12 -> "postprocessing_revaa"
      [] key = 20 -> "postprocessing_ireva"
      [] key = 21 -> "postprocessing_areva"
      [] key = 22 -> "postprocessing_revareva"
      [] OTHER -> old

\* switch (procmode) of TrigRand_setProcMode
TrigRandProcSwitch_Swapped(key, old) ==
    CASE key = 0 -> "TrigRand_generate_ii"
      [] key = 1 -> "TrigRand_generate_ia"
      [] key = 10 -> "TrigRand_generate_ai"
      [] key = 11 -> "TrigRand_generate_aa"
      [] OTHER -> old

TrigRandProcSwitch(key, old) ==
    CASE key = 0 -> "TrigRand_generate_ii"
      [] key = 1 -> "TrigRand_generate_ai"
      [] key = 10 -> "TrigRand_generate_ia"
      [] key = 11 -> "TrigRand_generate_aa"
      [] OTHER -> old

TrigRand_setProcMode(u) ==
    LET procmode == u.modebuffer[2] + u.modebuffer[3] * 10
        muladdmode == u.modebuffer[0] + u.modebuffer[1] * 10
    IN  [u EXCEPT !.proc_func_ptr = TrigRandProcSwitch(procmode, @),
                  !.muladd_func_ptr = MulAddSwitch(muladdmode, @)]

\* Hilbert_setProcMode: its own copy of the switch (muladdmode)
Hilbert_setProcMode(u) ==
    LET muladdmode == u.modebuffer[0] + u.modebuffer[1] * 10
    IN  [u EXCEPT !.muladd_func_ptr =
            CASE muladdmode = 0 -> "postprocessing_ii"
              [] muladdmode = 1 -> "postprocessing_ai"
              [] muladdmode = 2 -> "postprocessing_revai"
              [] muladdmode = 10 -> "postprocessing_ia"
              [] muladdmode = 11 -> "postprocessing_aa"
              [] muladdmode = 12 -> "postprocessing_revaa"
              [] muladdmode = 20 -> "postprocessing_ireva"
              [] muladdmode = 21 -> "postprocessing_areva"
              [] muladdmode = 22 -> "postprocessing_revareva"
              [] OTHER -> @]

\* switch (procmode) of TrigXnoise_setProcMode
TrigXnoiseProcSwitch(key, old) ==
    CASE key = 0 -> "TrigXnoise_generate_ii"
      [] key = 1 -> "TrigXnoise_generate_ai"
      [] key = 10 -> "TrigXnoise_generate_ia"
      [] key = 11 -> "TrigXnoise_generate_aa"
      [] OTHER -> old

TrigXnoise_setProcMode(u) ==
    LET procmode == u.modebuffer[2] + u.modebuffer[3] * 10
        muladdmode == u.modebuffer[0] + u.modebuffer[1] * 10
    IN  [u EXCEPT !.proc_func_ptr = TrigXnoiseProcSwitch(procmode, @),
                  !.muladd_func_ptr = MulAddSwitch(muladdmode, @)]

TrigEnv_setProcMode(u) ==
    LET procmode == u.modebuffer[2]
        muladdmode == u.modebuffer[0] + u.modebuffer[1] * 10
    IN  [u EXCEPT !.proc_func_ptr =
                      CASE procmode = 0 -> "TrigEnv_readframes_i"
                        [] procmode = 1 -> "TrigEnv_readframes_a"
                        [] OTHER -> @,
                  !.muladd_func_ptr = MulAddSwitch(muladdmode, @)]

TrigChoice_setProcMode(u) ==
    LET muladdmode == u.modebuffer[0] + u.modebuffer[1] * 10
    IN  [u EXCEPT !.proc_func_ptr = "TrigChoice_generate",
                  !.muladd_func_ptr = MulAddSwitch(muladdmode, @)]

\* (*self->mode_func_ptr)(self): the setProcMode that X_new stored
mode_func_ptr(c, u) ==
    CASE c = "TrigRand" -> TrigRand_setProcMode(u)
      [] c = "TrigXnoise" -> TrigXnoise_setProcMode(u)
      [] c = "TrigEnv" -> TrigEnv_setProcMode(u)
      [] c = "Hilbert" -> Hilbert_setProcMode(u)
      [] c = "TrigChoice" -> TrigChoice_setProcMode(u)

\* X_new and X_init with numbers for every parameter, mul and add
BindCreate == [c \in Classes |-> mode_func_ptr(c, BindNew)]

\* the if / else of a setter on the tag in slot k, and the call that follows
SetTag(b, c, k, tag) ==
    [b EXCEPT ![c] = mode_func_ptr(c, [@ EXCEPT !.modebuffer[k] = tag])]

(* The observer of the setter calls.  stage 1: the last call gave a stream  *)
(* to the parameter in slot k of class c, which held a number, and proc0    *)
(* was the generator bound before that call; stage 2: the call after that   *)
(* gave the same parameter a number again; stage 0: anything else.          *)
BindHist0 == [class |-> "none", slot |-> 0, stage |-> 0, proc0 |-> "none"]

BindObserve(h, b, c, k, tag) ==
    IF tag = 1 /\ b[c].modebuffer[k] = 0
    THEN [class |-> c, slot |-> k, stage |-> 1, proc0 |-> b[c].proc_func_ptr]
    ELSE IF tag = 0 /\ h.stage = 1 /\ h.class = c /\ h.slot = k
    THEN [h EXCEPT !.stage = 2]
    ELSE BindHist0

BindInit ==
    /\ bind = BindCreate
    /\ bhist = BindHist0

(* ------------------- the glide of TrigRand, TrigChoice ------------------ *)
(* value, currentValue and stepVal are floats.  The model keeps them exact: *)
(* a value v is held as the integer v * Den, and Den is chosen so that      *)
(* every division by timeStep the code performs in a run of at most         *)
(* MaxTrigs triggers leaves no remainder.  A float division by 0 gives an   *)
(* infinity or a NaN; these are the three values beyond Huge.               *)
(* self->time * self->sr, the port time in samples, is held in units of     *)
(* 1/PortDen sample.                                                        *)
RECURSIVE Gcd(_, _)
Gcd(a, b) == IF b = 0 THEN a ELSE Gcd(b, a % b)

RECURSIVE LcmUpTo(_)
LcmUpTo(n) == IF n <= 1 THEN 1 ELSE LET l == LcmUpTo(n - 1) IN (l * n) \div Gcd(l, n)

RECURSIVE Pow(_, _)
Pow(b, e) == IF e = 0 THEN 1 ELSE b * Pow(b, e - 1)

Den == Unit * Pow(LcmUpTo(MaxStep), MaxTrigs)

Huge == 100000000

PosInf == Huge

NegInf == -Huge

NaN == 2 * Huge

IsFinite(x) == -Huge < x /\ x < Huge

\* float a + b
FAdd(a, b) ==
    IF a = NaN \/ b = NaN THEN NaN
    ELSE IF IsFinite(a) /\ IsFinite(b) THEN a + b
    ELSE IF IsFinite(a) THEN b
    ELSE IF IsFinite(b) \/ a = b THEN a
    ELSE NaN

\* float -a
FNeg(a) == IF a = NaN THEN NaN ELSE -a

\* float a / n for an int n
FDiv(a, n) ==
    IF a = NaN THEN NaN
    ELSE IF n = 0 THEN (IF a > 0 THEN PosInf ELSE IF a < 0 THEN NegInf ELSE NaN)
    ELSE IF ~IsFinite(a) THEN (IF n > 0 THEN a ELSE -a)
    ELSE IF a >= 0 THEN a \div n ELSE -((-a) \div n)

\* the port times (in 1/PortDen sample) a constructor or setPort is given:
\* below 0, 0, less than a sample, one sample, two samples and a fraction
\* (nearer to three), MaxStep samples
PortVals == {-1, 0, 1, PortDen, 3 * PortDen - 1, MaxStep * PortDen}

\* (int)(self->time * self->sr): the cast truncates toward 0
TimeToSteps_Round(t) ==
    IF t >= 0 THEN (2 * t + PortDen) \div (2 * PortDen)
    ELSE -((2 * (-t) + PortDen) \div (2 * PortDen))

TimeToSteps(t) == IF t >= 0 THEN t \div PortDen ELSE -((-t) \div PortDen)

\* the trigger branch of the generators once the new target v is drawn
GlideRetarget_Strict(s, v) ==
    IF s.time < 0
    THEN [s EXCEPT !.timeCount = 0, !.value = v, !.currentValue = v]
    ELSE [s EXCEPT !.timeCount = 0, !.value = v,
                   !.stepVal = FDiv(FAdd(v, FNeg(s.currentValue)), s.timeStep)]

GlideRetarget(s, v) ==
    IF s.time <= 0
    THEN [s EXCEPT !.timeCount = 0, !.value = v, !.currentValue = v]
    ELSE [s EXCEPT !.timeCount = 0, !.value = v,
                   !.stepVal = FDiv(FAdd(v, FNeg(s.currentValue)), s.timeStep)]

\* the if / else-if that follows the trigger branch on every sample
GlideAdvance_Minus(s) ==
    IF s.timeCount = s.timeStep - 1
    THEN [s EXCEPT !.currentValue = s.value, !.timeCount = s.timeCount + 1]
    ELSE IF s.timeCount < s.timeStep
    THEN [s EXCEPT !.currentValue = FAdd(s.currentValue, FNeg(s.stepVal)),
                   !.timeCount = s.timeCount + 1]
    ELSE s

GlideAdvance(s) ==
    IF s.timeCount = s.timeStep - 1
    THEN [s EXCEPT !.currentValue = s.value, !.timeCount = s.timeCount + 1]
    ELSE IF s.timeCount < s.timeStep
    THEN [s EXCEPT !.currentValue = FAdd(s.currentValue, s.stepVal),
                   !.timeCount = s.timeCount + 1]
    ELSE s

\* setPort with a number: time and timeStep, nothing else
GlideSetPort(s, t) == [s EXCEPT !.time = t, !.timeStep = TimeToSteps(t)]

\* a sample of the input stream with the draw rand() gives if it is a trigger:
\* x the sample, k the draw in units of 1/Unit (0 <= k/Unit <= 1; the ratio
\* is 1.0 when rand() gives RAND_MAX, which (float) rounds up to RAND_MAX + 1)
Draws == 0..Unit

GlideSamples == {<<0, 0>>} \cup {<<Unit, k>> : k \in Draws}

NumTrigs(in) == Cardinality({i \in Indices : IsTrig(in[i][1])})

(* The observer of a glide.  seen: a trigger has come; start, portAt,       *)
(* stepAt: currentValue, time and timeStep when the last trigger came;      *)
(* since: the samples computed from the last trigger on, the trigger sample *)
(* being the first (it stops counting at MaxStep + 1); reached: the first   *)
(* of them whose output equalled the target (0: none yet); mono: every one  *)
(* of them, up to the one that reached the target, lay between start and    *)
(* the target and was no farther from the target than the sample before;    *)
(* held: every one of them equalled the target; clean: no setPort since the *)
(* last trigger; nset, ntrig: the setPort calls and the triggers so far.    *)
GlideHist0 ==
    [seen |-> FALSE, start |-> 0, portAt |-> 0, stepAt |-> 0, since |-> 0,
     reached |-> 0, mono |-> TRUE, held |-> TRUE, clean |-> TRUE,
     nset |-> 0, ntrig |-> 0]

Between(x, a, b) == (a <= x /\ x <= b) \/ (b <= x /\ x <= a)

Dist(x, y) == Abs(x - y)

\* the observer after one sample: s the struct before it, s2 after it
GlideObserve(h, s, s2, trig) ==
    LET h1 == IF trig
              THEN [h EXCEPT !.seen = TRUE, !.start = s.currentValue,
                             !.portAt = s.time, !.stepAt = s.timeStep,
                             !.since = 0, !.reached = 0, !.mono = TRUE,
                             !.held = TRUE, !.clean = TRUE,
                             !.ntrig = h.ntrig + 1]
              ELSE h
        out == s2.currentValue
        n == IF h1.since < MaxStep + 1 THEN h1.since + 1 ELSE h1.since
    IN  IF ~h1.seen THEN h1
        ELSE [h1 EXCEPT
                 !.since = n,
                 !.reached = IF h1.reached = 0 /\ out = s2.value
                             THEN n ELSE h1.reached,
                 !.mono = h1.mono /\
                          (h1.reached = 0 =>
                              /\ Between(out, h1.start, s2.value)
                              /\ Dist(out, s2.value) <=
                                     Dist(s.currentValue, s2.value)),
                 !.held = h1.held /\ out = s2.value]

(* ------------------------------ TrigRand ------------------------------- *)
\* TrigRand_new followed by TrigRand_init, before the compute step
\* TrigRand_init ends with: min and max are numbers, init and port the
\* keyword arguments
TrigRandCreate(mi, ma, port, init) ==
    [min |-> mi, max |-> ma,
     value |-> init * Den, currentValue |-> init * Den,
     time |-> port, timeStep |-> TimeToSteps(port),
     stepVal |-> 0, timeCount |-> 0]

\* TrigRand(input): every keyword argument left out
TrigRandNone ==
    [min |-> 0, max |-> Unit, value |-> 0, currentValue |-> 0,
     time |-> 0, timeStep |-> 0, stepVal |-> 0, timeCount |-> 0]

\* range * (rand()/((float)(RAND_MAX)+1)) + mi for the draw k/Unit
TrigRandDraw(mi, ma, k) == (ma - mi) * k * (Den \div Unit) + mi * Den

\* the body of the for-loop of TrigRand_generate_ii for the sample <<x, k>>
TrigRandSample(s, smp) ==
    GlideAdvance(IF IsTrig(smp[1])
                 THEN GlideRetarget(s, TrigRandDraw(s.min, s.max, smp[2]))
                 ELSE s)

RECURSIVE TrigRandRun(_, _, _, _, _)
TrigRandRun(s, h, in, i, data) ==
    IF i > BufSize THEN [s |-> s, h |-> h, data |-> data]
    ELSE LET s2 == TrigRandSample(s, in[i])
         IN  TrigRandRun(s2, GlideObserve(h, s, s2, IsTrig(in[i][1])), in, i + 1,
                         [data EXCEPT ![i] = s2.currentValue])

TrigRand_generate_ii(s, h, in, data) == TrigRandRun(s, h, in, 1, data)

TrigRandInit ==
    /\ \E port \in PortVals :
           trigrand = TrigRandCreate(0, Unit, port, 0)
    /\ trdata = ZeroBlock
    /\ trhist = GlideHist0

TrigRandIdle ==
    /\ trigrand = TrigRandNone
    /\ trdata = ZeroBlock
    /\ trhist = GlideHist0

\* TrigRand_compute_next_data_frame on a block of input samples and draws
\* (mul = 1, add = 0)
TrigRand_compute_next_data_frame ==
    \E in \in Blocks(GlideSamples) :
        LET r == TrigRand_generate_ii(trigrand, trhist, in, trdata)
        IN  /\ TrigRandOnly
            /\ trhist.ntrig + NumTrigs(in) <= MaxTrigs
            /\ trigrand' = r.s
            /\ trdata' = r.data
            /\ trhist' = r.h

TrigRand_setPort ==
    \E t \in PortVals :
        /\ TrigRandOnly
        /\ trhist.nset < MaxSets
        /\ trigrand' = GlideSetPort(trigrand, t)
        /\ trhist' = [trhist EXCEPT !.nset = trhist.nset + 1, !.clean = FALSE]
        /\ UNCHANGED trdata

(* ----------------------------- TrigChoice ------------------------------ *)
\* the lists setChoice is given at construction
ChoiceLists == {<<0, Unit>>}

\* what a read past the end of self->choice may return
JunkVals == {0, Unit + 1}

\* TrigChoice_new followed by TrigChoice_init (setChoice with the list),
\* before the compute step TrigChoice_init ends with
TrigChoiceCreate(list, port, init) ==
    [chSize |-> Len(list), choice |-> list,
     value |-> init * Den, currentValue |-> init * Den,
     time |-> port, timeStep |-> TimeToSteps(port),
     stepVal |-> 0, timeCount |-> 0]

TrigChoiceNone ==
    [chSize |-> 0, choice |-> <<>>, value |-> 0,
     currentValue |-> 0, time |-> 0, timeStep |-> 0, stepVal |-> 0,
     timeCount |-> 0]

\* (int)((rand()/((float)(RAND_MAX))) * self->chSize) for the draw k/Unit
ChoiceIndex(k, chSize) == (k * chSize) \div Unit

\* self->choice[index]: index counts from 0; past the end the read is junk
TrigChoiceDraw(s, k, junk) ==
    LET idx == ChoiceIndex(k, s.chSize)
    IN  IF idx < s.chSize THEN s.choice[idx + 1] * Den ELSE junk * Den

\* the body of the for-loop of TrigChoice_generate for the sample <<x, k>>
TrigChoiceSample(s, smp, junk) ==
    GlideAdvance(IF IsTrig(smp[1])
                 THEN GlideRetarget(s, TrigChoiceDraw(s, smp[2], junk))
                 ELSE s)

RECURSIVE TrigChoiceRun(_, _, _, _, _, _)
TrigChoiceRun(s, h, in, junk, i, data) ==
    IF i > BufSize THEN [s |-> s, h |-> h, data |-> data]
    ELSE LET s2 == TrigChoiceSample(s, in[i], junk)
         IN  TrigChoiceRun(s2, GlideObserve(h, s, s2, IsTrig(in[i][1])), in,
                           junk, i + 1, [data EXCEPT ![i] = s2.currentValue])

TrigChoice_generate(s, h, in, junk, data) == TrigChoiceRun(s, h, in, junk, 1, data)

\* the observer of setChoice before any call
SetChoiceHist0 ==
    [err |-> "none", choice |-> <<>>, chSize |-> 0, procs |-> BindNew,
     trig |-> FALSE]

TrigChoiceInit ==
    /\ \E list \in ChoiceLists, port \in PortVals :
           trigchoice = TrigChoiceCreate(list, port, 0)
    /\ tcdata = ZeroBlock
    /\ tchist = GlideHist0
    /\ tcset = SetChoiceHist0

TrigChoiceIdle ==
    /\ trigchoice = TrigChoiceNone
    /\ tcdata = ZeroBlock
    /\ tchist = GlideHist0
    /\ tcset = SetChoiceHist0

\* a trigger of the block reads past the end of self->choice
ReadsPast(s, in) ==
    \E i \in Indices : IsTrig(in[i][1]) /\ ChoiceIndex(in[i][2], s.chSize) >= s.chSize

\* TrigChoice_compute_next_data_frame on a block of input samples and draws
\* (mul = 1, add = 0)
TrigChoice_compute_next_data_frame ==
    \E in \in Blocks(GlideSamples) :
    \E junk \in IF ReadsPast(trigchoice, in) THEN JunkVals ELSE {0} :
        LET r == TrigChoice_generate(trigchoice, tchist, in, junk, tcdata)
        IN  /\ TrigChoiceOnly
            /\ tchist.ntrig + NumTrigs(in) <= MaxTrigs
            /\ trigchoice' = r.s
            /\ tcdata' = r.data
            /\ tchist' = r.h
            /\ tcset' = [tcset EXCEPT
                             !.trig = IF NumTrigs(in) = 0 THEN @
                                      ELSE /\ tcset.err = "TypeError"
                                           /\ ~ReadsPast(trigchoice, in)]

TrigChoice_setPort ==
    \E t \in PortVals :
        /\ TrigChoiceOnly
        /\ tchist.nset < MaxSets
        /\ trigchoice' = GlideSetPort(trigchoice, t)
        /\ tchist' = [tchist EXCEPT !.nset = tchist.nset + 1, !.clean = FALSE]
        /\ UNCHANGED <<tcdata, tcset>>

\* the lists setChoice is given later, and the arguments that are no list
NewLists == {<<Unit>>, <<1, Unit, Unit>>}

NonLists == {"tuple", "number"}

\* TrigChoice_setChoice when PyList_Check(arg) fails: the struct it returns
SetChoiceNonList_Empty(s) == [s EXCEPT !.chSize = 0, !.choice = <<>>]

SetChoiceNonList(s) == s

\* TrigChoice_setChoice with a list: chSize, realloc and the copy loop
SetChoiceList(s, list) == [s EXCEPT !.chSize = Len(list), !.choice = list]

\* what setChoice leaves alone
SetChoiceOnly ==
    UNCHANGED <<counterVars, threshVars, trigrandVars, xnoiseVars, midiVars,
                envVars, tcdata, tchist, bhist, auxVars>>

TrigChoice_setChoice ==
    /\ SetChoiceOnly
    /\ \/ \E arg \in NonLists :
              /\ trigchoice' = SetChoiceNonList(trigchoice)
              /\ tcset' = [err |-> "TypeError", choice |-> trigchoice.choice,
                           chSize |-> trigchoice.chSize,
                           procs |-> bind["TrigChoice"], trig |-> FALSE]
              /\ UNCHANGED bind
       \/ \E list \in NewLists :
              /\ trigchoice' = SetChoiceList(trigchoice, list)
              /\ tcset' = [err |-> "none", choice |-> trigchoice.choice,
                           chSize |-> trigchoice.chSize,
                           procs |-> bind["TrigChoice"], trig |-> FALSE]
              /\ bind' = [bind EXCEPT
                              !["TrigChoice"] = mode_func_ptr("TrigChoice", @)]

NextSetChoice ==
    \/ TrigChoice_compute_next_data_frame
    \/ TrigChoice_setChoice

(* ------------------- TrigChoice: the index of a draw -------------------- *)
\* the lists the constructor is given
IndexLists == {<<>>, <<Unit>>, <<0, Unit>>}

\* the observer: the indices the triggers of the last block computed, and
\* chSize as that block found it
IndexHist0 == [idx |-> {}, chSize |-> 0]

\* TrigChoice(input, choice, port): TrigChoice_init calls setChoice
IndexInit ==
    /\ \E list \in IndexLists, port \in {0, 2 * PortDen} :
           trigchoice = TrigChoiceCreate(list, port, 0)
    /\ tcdata = ZeroBlock
    /\ tchist = GlideHist0
    /\ tcset = SetChoiceHist0
    /\ ixhist = IndexHist0

IndexIdle == ixhist = IndexHist0

\* TrigChoice_compute_next_data_frame on a block of input samples and draws
\* (mul = 1, add = 0), its indices observed
TrigChoice_indexed ==
    \E in \in Blocks(GlideSamples) :
    \E junk \in IF ReadsPast(trigchoice, in) THEN JunkVals ELSE {0} :
        LET r == TrigChoice_generate(trigchoice, tchist, in, junk, tcdata)
        IN  /\ tchist.ntrig + NumTrigs(in) <= MaxTrigs
            /\ UNCHANGED <<counterVars, threshVars, trigrandVars, xnoiseVars,
                           midiVars, envVars, bindVars, funcVars,
                           hilbertVars, rangeVars, tapVars, twinVars, tcset>>
            /\ trigchoice' = r.s
            /\ tcdata' = r.data
            /\ tchist' = r.h
            /\ ixhist' = [idx |-> {ChoiceIndex(in[i][2], trigchoice.chSize) :
                                       i \in {j \in Indices : IsTrig(in[j][1])}},
                          chSize |-> trigchoice.chSize]


NextIndex ==
    \/ TrigChoice_indexed
    \/ TrigChoice_setChoice

(* ------------------------------ TrigXnoise ----------------------------- *)
\* x1, x2, xx1, xx2, the values drawn and the samples of TrigXnoise are
\* counted in thousandths
Milli == 1000

\* the numbers setX1 is given, and the samples of an x1 stream
X1Vals == {0, 100, 500}

\* the samples of an x2 stream
X2Vals == {0, 500}

\* switch (self->type) of TrigXnoise_setRandomType
TrigXnoise_setRandomType(s) ==
    [s EXCEPT !.type_func_ptr =
                  CASE s.type = 0 -> "TrigXnoise_uniform"
                    [] s.type = 10 -> "TrigXnoise_poisson"
                    [] s.type = 11 -> "TrigXnoise_walker"
                    [] s.type = 12 -> "TrigXnoise_loopseg"
                    [] OTHER -> @]

\* TrigXnoise_new, then TrigXnoise_init(input, type) up to the compute step
\* it ends with; lenr is the rand() of TrigXnoise_new
XnoiseCreate(type, lenr) ==
    TrigXnoise_setRandomType(
        [type |-> type, type_func_ptr |-> "none",
         x1 |-> Milli \div 2, x2 |-> Milli \div 2,
         xx1 |-> Milli \div 2, xx2 |-> Milli \div 2, value |-> 0,
         lastPoissonX1 |-> -99 * Milli, poisson_tab |-> 0,
         poisson_buffer |-> [i \in 1..11 |-> 0],
         walkerValue |-> Milli \div 2, loop_buffer |-> [i \in 0..14 |-> 0],
         loopChoice |-> 0, loopCountPlay |-> 0, loopTime |-> 0,
         loopCountRec |-> 0, loopStop |-> 0, loopLen |-> (lenr % 10) + 3])

\* an x1 far above the 11 numbers the table is built from: 30.0
X1Far == {30 * Milli}

\* powf(2.7182818, -xx1) in millionths, for the values xx1 takes here
\* (e^-30 is 9.4e-14; with it every one of the 11 terms is below 1, the
\* largest, 1000 * e^-30 * 30^11 / 11!, being 0.04)
PoissonExp(x) ==
    CASE x = 100 -> 904837
      [] x = 500 -> 606531
      [] x = 30 * Milli -> 0

\* 1000.0 * powf(2.7182818, -x) * powf(x, i) / factorial in millionths,
\* computed term by term
RECURSIVE PoissonTerm(_, _)
PoissonTerm(x, i) ==
    IF i = 0 THEN PoissonExp(x) * 1000
    ELSE ((PoissonTerm(x, i - 1) \div Milli) * x) \div i

\* poisson_buffer after the two for-loops: tot entries hold i, for i = 1..11
\* in turn; the function gives tot for each i
PoissonBuild(x) == [i \in 1..11 |-> PoissonTerm(x, i) \div 1000000]

RECURSIVE PoissonSum(_, _)
PoissonSum(buf, i) == IF i = 0 THEN 0 ELSE buf[i] + PoissonSum(buf, i - 1)

\* poisson_buffer[idx]
PoissonAt(buf, idx) ==
    CHOOSE i \in 1..11 : PoissonSum(buf, i - 1) <= idx /\ idx < PoissonSum(buf, i)

\* the values of rand() at a Poisson draw
PoissonRands == {0, 92, 380}

\* if (self->xx1 != self->lastPoissonX1) of TrigXnoise_poisson
PoissonStale_Once(s) == s.lastPoissonX1 < 0

PoissonStale(s) == s.xx1 # s.lastPoissonX1

\* the lines of TrigXnoise_poisson before the draw: the two clamps and the
\* table, built anew when xx1 has changed
PoissonFill(s) ==
    LET s1 == [s EXCEPT !.xx1 = IF @ < Milli \div 10 THEN Milli \div 10 ELSE @,
                        !.xx2 = IF @ < Milli \div 10 THEN Milli \div 10 ELSE @]
    IN  IF PoissonStale(s1)
        THEN [s1 EXCEPT !.lastPoissonX1 = s1.xx1,
                        !.poisson_buffer = PoissonBuild(s1.xx1),
                        !.poisson_tab = PoissonSum(PoissonBuild(s1.xx1), 11)]
        ELSE s1

\* rand() % self->poisson_tab with poisson_tab = 0 is a division by zero:
\* the call traps (no outcome), or it goes on with some slot of
\* poisson_buffer, which holds the 0.0 of TrigXnoise_new or a number an
\* earlier table left there
PoissonJunk(s) ==
    IF PoissonFill(s).poisson_tab = 0 THEN {0, 11} ELSE {0}

\* TrigXnoise_poisson with r the value of rand(); junk: the slot read when
\* the table is empty
PoissonDraw(s, r, junk) ==
    LET s2 == PoissonFill(s)
        slot == IF s2.poisson_tab = 0 THEN junk
                ELSE PoissonAt(s2.poisson_buffer, r % s2.poisson_tab)
        val == (slot * s2.xx2) \div 12
    IN  [s |-> s2,
         val |-> IF val < 0 THEN 0 ELSE IF val > Milli THEN Milli ELSE val]

TrigXnoise_poisson(s) ==
    {[s |-> o.s, val |-> o.val, moved |-> FALSE] :
         o \in {PoissonDraw(s, r, junk) :
                    r \in PoissonRands, junk \in PoissonJunk(s)}}

\* the values of rand() where the walk draws its direction and its step,
\* where a recording ends (loopStop) and where a playback ends (loopLen)
DirRands == {0, 1}

StepRands == {250, 251}

StopRands == {0, 3}

LenRands == {0, 9}

\* the lines the walk and the recording branch of the looped walk share:
\* the clamp of xx2, modulo, dir, the step and the clamp of walkerValue
WalkStep_Loose(s, dr, sr) ==
    LET s1 == [s EXCEPT !.xx2 = IF @ < 2 THEN 2 ELSE @]
        modulo == s1.xx2
        dir == dr % 2
        step == (sr % modulo) - (modulo \div 2)
        w == IF dir = 0 THEN s1.walkerValue + step ELSE s1.walkerValue - step
        w1 == IF w > Milli THEN Milli ELSE w
        w2 == IF w1 < 0 THEN 0 ELSE w1
    IN  [s |-> [s1 EXCEPT !.walkerValue = w2], moved |-> w2 # s.walkerValue]

WalkStep(s, dr, sr) ==
    LET s1 == [s EXCEPT !.xx2 = IF @ < 2 THEN 2 ELSE @]
        modulo == s1.xx2
        dir == dr % 2
        step == (sr % modulo) - (modulo \div 2)
        w == IF dir = 0 THEN s1.walkerValue + step ELSE s1.walkerValue - step
        w1 == IF w > s1.xx1 THEN s1.xx1 ELSE w
        w2 == IF w1 < 0 THEN 0 ELSE w1
    IN  [s |-> [s1 EXCEPT !.walkerValue = w2], moved |-> w2 # s.walkerValue]

TrigXnoise_walker(s) ==
    {[s |-> o.s, val |-> o.s.walkerValue, moved |-> o.moved] :
         o \in {WalkStep(s, dr, sr) : dr \in DirRands, sr \in StepRands}}

\* if (self->loopChoice == 0) { ... } of TrigXnoise_loopseg
LoopRecord_Over(s, o, tr) ==
    LET t == [o.s EXCEPT !.loop_buffer[o.s.loopCountRec] = o.s.walkerValue,
                         !.loopCountRec = @ + 1]
    IN  IF t.loopCountRec <= t.loopLen
        THEN [t EXCEPT !.loopChoice = 0]
        ELSE [t EXCEPT !.loopChoice = 1, !.loopStop = (tr % 4) + 1]

LoopRecord(s, o, tr) ==
    LET t == [o.s EXCEPT !.loop_buffer[o.s.loopCountRec] = o.s.walkerValue,
                         !.loopCountRec = @ + 1]
    IN  IF t.loopCountRec < t.loopLen
        THEN [t EXCEPT !.loopChoice = 0]
        ELSE [t EXCEPT !.loopChoice = 1, !.loopStop = (tr % 4) + 1]

\* else { ... } of TrigXnoise_loopseg
LoopPlay_Short(s, lr) ==
    LET t == [s EXCEPT !.loopCountRec = 0,
                       !.walkerValue = s.loop_buffer[s.loopCountPlay],
                       !.loopCountPlay = @ + 1]
        u == IF t.loopCountPlay < t.loopLen - 1
             THEN [t EXCEPT !.loopChoice = 1]
             ELSE [t EXCEPT !.loopCountPlay = 0, !.loopTime = @ + 1]
    IN  IF u.loopTime = u.loopStop
        THEN [u EXCEPT !.loopChoice = 0, !.loopLen = (lr % 10) + 3]
        ELSE u

LoopPlay(s, lr) ==
    LET t == [s EXCEPT !.loopCountRec = 0,
                       !.walkerValue = s.loop_buffer[s.loopCountPlay],
                       !.loopCountPlay = @ + 1]
        u == IF t.loopCountPlay < t.loopLen
             THEN [t EXCEPT !.loopChoice = 1]
             ELSE [t EXCEPT !.loopCountPlay = 0, !.loopTime = @ + 1]
    IN  IF u.loopTime = u.loopStop
        THEN [u EXCEPT !.loopChoice = 0, !.loopLen = (lr % 10) + 3]
        ELSE u

TrigXnoise_loopseg(s) ==
    IF s.loopChoice = 0
    THEN LET s0 == [s EXCEPT !.loopCountPlay = 0, !.loopTime = 0]
         IN  {[s |-> t, val |-> t.walkerValue, moved |-> o.moved] :
                  <<o, t>> \in
                      {<<o, LoopRecord(s0, o, tr)>> :
                           o \in {WalkStep(s0, dr, sr) :
                                      dr \in DirRands, sr \in StepRands},
                           tr \in StopRands}}
    ELSE {[s |-> t, val |-> t.walkerValue, moved |-> FALSE] :
              t \in {LoopPlay(s, lr) : lr \in LenRands}}

\* (*self->type_func_ptr)(self): the struct after the call and the value
\* returned, for every outcome of the calls of rand()
type_func_ptr(s) ==
    CASE s.type_func_ptr = "TrigXnoise_poisson" -> TrigXnoise_poisson(s)
      [] s.type_func_ptr = "TrigXnoise_walker" -> TrigXnoise_walker(s)
      [] s.type_func_ptr = "TrigXnoise_loopseg" -> TrigXnoise_loopseg(s)

(* The observer of the Poisson draws.  prevX: x1, clamped, at the last      *)
(* Poisson draw (-1 before the first); tableOk: at every draw so far the    *)
(* table drawn from was the one PoissonBuild gives for x1, clamped, of that *)
(* draw; memoOk: every draw after the first rebuilt the table exactly when  *)
(* x1, clamped, differed from prevX; kept, rebuilt, viaStream: a draw that  *)
(* kept the table, one after the first that rebuilt it for a number given  *)
(* to setX1, one that rebuilt it for a sample of the x1 stream.             *)
(* The observer of the looped walk.  phase: the branch the last trigger    *)
(* took ("rec", "play"; "none" before the first); recN, rec: the triggers   *)
(* of the recording phase under way or last ended, and the values they      *)
(* returned; lastRec: the number of triggers of the last recording phase    *)
(* that has ended (0: none has); playN: the triggers of the playback under  *)
(* way; playOk: every playback trigger so far returned the value rec holds  *)
(* at its place, counting round; countOk: every playback that has ended     *)
(* took Len(rec) * R triggers for an R in 1..4; nwalk: the triggers that    *)
(* changed walkerValue by a step of the walk; idxOk: at every trigger of   *)
(* the looped walk so far the index into loop_buffer was below loopLen;     *)
(* slots: the indices written by the recording phase under way or last      *)
(* ended; slotOk: every playback trigger so far read an index in slots;     *)
(* cut: setType has switched the looped walk back on in the middle of a     *)
(* recording or of a playback; walkOk: every trigger of the walk so far     *)
(* returned a value in [0, xx1]; stepOk: every one left xx2, which gives    *)
(* the modulus of the step, at 0.002 or above; capped: a trigger of the     *)
(* walk found walkerValue above xx1; raised: one found xx2 below 0.002.     *)
XHist0 ==
    [prevX |-> -1, tableOk |-> TRUE, memoOk |-> TRUE, kept |-> FALSE,
     viaSet |-> FALSE, viaStream |-> FALSE,
     phase |-> "none", recN |-> 0, rec |-> <<>>, lastRec |-> 0, playN |-> 0,
     playOk |-> TRUE, countOk |-> TRUE, nwalk |-> 0,
     idxOk |-> TRUE, slots |-> {}, slotOk |-> TRUE, cut |-> FALSE,
     walkOk |-> TRUE, stepOk |-> TRUE, capped |-> FALSE, raised |-> FALSE]

PoissonClamp(x) == IF x < Milli \div 10 THEN Milli \div 10 ELSE x

\* s, s2: the struct before and after the draw; cur: x1 at the draw (the
\* number self->x1, or the sample of the x1 stream); str: x1 is a stream
PoissonObserve(h, s, s2, cur, str) ==
    LET built == s2.lastPoissonX1 # s.lastPoissonX1
        c == PoissonClamp(cur)
    IN  [h EXCEPT
            !.prevX = c,
            !.tableOk = @ /\ s2.poisson_buffer = PoissonBuild(c),
            !.memoOk = @ /\ (h.prevX # -1 => (built <=> c # h.prevX)),
            !.kept = @ \/ ~built,
            !.viaSet = @ \/ (built /\ h.prevX # -1 /\ ~str),
            !.viaStream = @ \/ (built /\ h.prevX # -1 /\ str)]

\* s: the struct when TrigXnoise_loopseg is called, o: its outcome
LoopObserve(h, s, o) ==
    IF s.loopChoice = 0
    THEN LET ended == h.phase = "play"
             L == Len(h.rec)
         IN  [h EXCEPT
                 !.phase = "rec",
                 !.recN = IF h.phase = "rec" THEN @ + 1 ELSE 1,
                 !.rec = IF h.phase = "rec" THEN Append(@, o.val)
                         ELSE <<o.val>>,
                 !.playN = 0,
                 !.countOk = @ /\ (ended =>
                                 \E R \in 1..4 : h.playN = L * R),
                 !.nwalk = IF o.moved THEN @ + 1 ELSE @,
                 !.idxOk = @ /\ s.loopCountRec < s.loopLen,
                 !.slots = IF h.phase = "rec" THEN @ \cup {s.loopCountRec}
                           ELSE {s.loopCountRec}]
    ELSE LET n == IF h.phase = "play" THEN h.playN + 1 ELSE 1
             L == Len(h.rec)
         IN  [h EXCEPT
                 !.phase = "play",
                 !.lastRec = IF h.phase = "rec" THEN h.recN ELSE @,
                 !.playN = n,
                 !.playOk = @ /\ L > 0 /\ o.val = h.rec[((n - 1) % L) + 1],
                 !.idxOk = @ /\ s.loopCountPlay < s.loopLen,
                 !.slotOk = @ /\ s.loopCountPlay \in h.slots]

\* s: the struct when type_func_ptr is called, o: the outcome of the call
XObserve(h, s, o, cur, str) ==
    CASE s.type_func_ptr = "TrigXnoise_poisson" ->
             PoissonObserve(h, s, o.s, cur, str)
      [] s.type_func_ptr = "TrigXnoise_loopseg" -> LoopObserve(h, s, o)
      [] s.type_func_ptr = "TrigXnoise_walker" ->
             [h EXCEPT !.nwalk = IF o.moved THEN @ + 1 ELSE @,
                       !.walkOk = @ /\ 0 <= o.val /\ o.val <= s.xx1,
                       !.stepOk = @ /\ o.s.xx2 >= 2,
                       !.capped = @ \/ s.walkerValue > s.xx1,
                       !.raised = @ \/ s.xx2 < 2]
      [] OTHER -> h

\* the generator reads x1 (x2) from a stream
X1IsStream(proc) ==
    proc \in {"TrigXnoise_generate_ai", "TrigXnoise_generate_aa"}

X2IsStream(proc) ==
    proc \in {"TrigXnoise_generate_ia", "TrigXnoise_generate_aa"}

\* the lines of TrigXnoise_generate_xx before the for-loop
XnoiseLoad(s, proc) ==
    [s EXCEPT !.xx1 = IF X1IsStream(proc) THEN @ ELSE s.x1,
              !.xx2 = IF X2IsStream(proc) THEN @ ELSE s.x2]

\* self->xx1 = x1[i] of generate_ai and generate_aa on a trigger
XnoiseLoadX1(s, proc, a) ==
    IF X1IsStream(proc) THEN [s EXCEPT !.xx1 = a] ELSE s

XnoiseLoadX2(s, proc, b) ==
    IF X2IsStream(proc) THEN [s EXCEPT !.xx2 = b] ELSE s

\* the recording triggers of one run that may change walkerValue
MaxWalk == 1

\* the body of the for-loop for sample i, from the state e = [s, h, data, n]
\* (n: the triggers of the block so far): every outcome over in[i], x1[i],
\* x2[i] and the calls of rand()
XnoiseSample(e, proc, i) ==
    {[e EXCEPT !.data[i] = e.s.value]}
    \cup
    UNION {LET s1 == XnoiseLoadX2(XnoiseLoadX1(e.s, proc, a), proc, b)
               cur == IF X1IsStream(proc) THEN a ELSE e.s.x1
           IN  {[s |-> [o.s EXCEPT !.value = o.val],
                 h |-> XObserve(e.h, s1, o, cur, X1IsStream(proc)),
                 data |-> [e.data EXCEPT ![i] = o.val],
                 n |-> e.n + 1] :
                    o \in {p \in type_func_ptr(s1) :
                              p.moved => e.h.nwalk < MaxWalk}} :
               a \in IF X1IsStream(proc) THEN X1Vals ELSE {0},
               b \in IF X2IsStream(proc) THEN X2Vals ELSE {0}}

RECURSIVE XnoiseRun(_, _, _)
XnoiseRun(E, proc, i) ==
    IF i > BufSize THEN E
    ELSE XnoiseRun(UNION {XnoiseSample(e, proc, i) : e \in E}, proc, i + 1)

\* TrigXnoise_generate_ii, _ai, _ia, _aa (the one proc names): the outcomes
\* of one block
TrigXnoise_generate(s, h, data, proc) ==
    XnoiseRun({[s |-> XnoiseLoad(s, proc), h |-> h, data |-> data, n |-> 0]},
              proc, 1)

XnoiseInit ==
    /\ xnoise = XnoiseCreate(10, 0)
    /\ xdata = ZeroBlock
    /\ xhist = XHist0

\* TrigXnoise(input, type=12), and TrigXnoise(input, type=12, x2=stream)
LoopsegInit ==
    /\ \E lenr \in LenRands : xnoise = XnoiseCreate(12, lenr)
    /\ xdata = ZeroBlock
    /\ xhist = XHist0
    /\ \E tag \in {0, 1} : bind = SetTag(BindCreate, "TrigXnoise", 3, tag)
    /\ bhist = BindHist0

\* TrigXnoise(input, type=12)
LoopTypeInit ==
    /\ \E lenr \in LenRands : xnoise = XnoiseCreate(12, lenr)
    /\ xdata = ZeroBlock
    /\ xhist = XHist0
    /\ bind = SetTag(BindCreate, "TrigXnoise", 3, 0)
    /\ bhist = BindHist0

\* TrigXnoise(input, type=11), and TrigXnoise(input, type=11, x2=stream)
WalkerInit ==
    /\ xnoise = XnoiseCreate(11, 0)
    /\ xdata = ZeroBlock
    /\ xhist = XHist0
    /\ \E tag \in {0, 1} : bind = SetTag(BindCreate, "TrigXnoise", 3, tag)
    /\ bhist = BindHist0

XnoiseIdle ==
    /\ xnoise = XnoiseCreate(0, 0)
    /\ xdata = ZeroBlock
    /\ xhist = XHist0

\* what the steps of the TrigXnoise object leave alone
XnoiseOnly ==
    UNCHANGED <<counterVars, threshVars, trigrandVars, trigchoiceVars,
                midiVars, envVars, auxVars>>

\* TrigXnoise_compute_next_data_frame (mul = 1, add = 0)
TrigXnoise_compute_next_data_frame ==
    \E r \in TrigXnoise_generate(xnoise, xhist, xdata,
                                 bind["TrigXnoise"].proc_func_ptr) :
        /\ XnoiseOnly
        /\ xnoise' = r.s
        /\ xdata' = r.data
        /\ xhist' = r.h
        /\ UNCHANGED bindVars

\* the types given to setType: walker, loopseg
TypeVals == {11, 12}

\* setType(t) switches the looped walk back on in the middle of a
\* recording or of a playback
LoopCut(s, t) ==
    /\ t = 12
    /\ s.type_func_ptr # "TrigXnoise_loopseg"
    /\ s.loopCountRec > 0 \/ s.loopChoice = 1

\* TrigXnoise_setType with an int: self->type = arg, then
\* TrigXnoise_setRandomType
TrigXnoise_setType_Anew ==
    \E t \in TypeVals, lenr \in LenRands :
        /\ XnoiseOnly
        /\ xnoise' = TrigXnoise_setRandomType(
                          [xnoise EXCEPT !.type = t,
                                         !.loopLen = (lenr % 10) + 3])
        /\ xhist' = [xhist EXCEPT !.cut = @ \/ LoopCut(xnoise, t)]
        /\ UNCHANGED <<xdata, bindVars>>

TrigXnoise_setType ==
    \E t \in TypeVals :
        /\ XnoiseOnly
        /\ xnoise' = TrigXnoise_setRandomType([xnoise EXCEPT !.type = t])
        /\ xhist' = [xhist EXCEPT !.cut = @ \/ LoopCut(xnoise, t)]
        /\ UNCHANGED <<xdata, bindVars>>

\* a compute step on a block that holds a trigger
TrigXnoise_trigger_frame ==
    \E r \in TrigXnoise_generate(xnoise, xhist, xdata,
                                 bind["TrigXnoise"].proc_func_ptr) :
        /\ r.n > 0
        /\ XnoiseOnly
        /\ xnoise' = r.s
        /\ xdata' = r.data
        /\ xhist' = r.h
        /\ UNCHANGED bindVars

(* ---------------------------- TrigXnoiseMidi --------------------------- *)
\* (int)(num / den) for whole num and den > 0: the cast truncates toward 0
IntCast(num, den) ==
    IF num >= 0 THEN num \div den ELSE -((-num) \div den)

\* x * powf(1.0594633, n) in thousandths, an octave (twelve semitones: a
\* factor of 2) or one semitone at a time
RECURSIVE Semitones(_, _)
Semitones(x, n) ==
    IF n = 0 THEN x
    ELSE IF n >= 12 THEN Semitones(2 * x, n - 12)
    ELSE IF n <= -12 THEN Semitones(x \div 2, n + 12)
    ELSE IF n > 0 THEN Semitones(x + ((x \div 10) * 595) \div 1000, n - 1)
    ELSE Semitones((x * 10000) \div 10595, n + 1)

\* midival of TrigXnoiseMidi_convert, after its clamp
MidiNote(s) ==
    LET midival == IntCast(s.value * (s.range_max - s.range_min)
                               + s.range_min * Milli, Milli)
    IN  IF midival < 0 THEN 0 ELSE IF midival > 127 THEN 127 ELSE midival

\* TrigXnoiseMidi_convert: the value returned, in thousandths
TrigXnoiseMidi_convert(s) ==
    LET midival == MidiNote(s)
    IN  IF s.scale = 0 THEN midival * Milli
        ELSE IF s.scale = 1 THEN Semitones(8176, midival)
        ELSE IF s.scale = 2 THEN Semitones(Milli, midival - s.centralkey)
        ELSE midival * Milli

\* switch (self->type) of TrigXnoiseMidi_setRandomType
TrigXnoiseMidi_setRandomType(s) ==
    [s EXCEPT !.type_func_ptr =
                  CASE s.type = 4 -> "TrigXnoiseMidi_expon_min"
                    [] s.type = 11 -> "TrigXnoiseMidi_walker"
                    [] OTHER -> @]

\* TrigXnoiseMidi_new, then TrigXnoiseMidi_init(input, type) up to the
\* compute step it ends with (the Poisson table and the loop segment, which
\* neither distribution below reads, are left out)
MidiCreate(type) ==
    TrigXnoiseMidi_setRandomType(
        [type |-> type, type_func_ptr |-> "none",
         x1 |-> Milli \div 2, x2 |-> Milli \div 2,
         xx1 |-> Milli \div 2, xx2 |-> Milli \div 2, value |-> 0,
         walkerValue |-> Milli \div 2,
         scale |-> 0, range_min |-> 0, range_max |-> 127,
         centralkey |-> 64])

\* -logf(RANDOM_UNIFORM) / self->xx1 of expon_min: any float
ExponVals == {-300, 400, 2500}

\* TrigXnoiseMidi_expon_min: the clamp of xx1, then of val to [0, 1]
TrigXnoiseMidi_expon_min(s) ==
    LET s1 == [s EXCEPT !.xx1 = IF @ <= 0 THEN 1 ELSE @]
    IN  {[s |-> s1,
          val |-> IF v < 0 THEN 0 ELSE IF v > Milli THEN Milli ELSE v] :
             v \in ExponVals}

\* rand() % modulo of the walk when x2 = 0.5: a step of 0.25 or of 0
MidiStepRands == {0, 250}

TrigXnoiseMidi_walker(s) ==
    {[s |-> o.s, val |-> o.s.walkerValue] :
         o \in {WalkStep(s, dr, sr) : dr \in DirRands, sr \in MidiStepRands}}

midi_type_func_ptr(s) ==
    CASE s.type_func_ptr = "TrigXnoiseMidi_expon_min" ->
             TrigXnoiseMidi_expon_min(s)
      [] s.type_func_ptr = "TrigXnoiseMidi_walker" ->
             TrigXnoiseMidi_walker(s)

(* The observer of the last trigger.  n: the triggers so far; raw: the     *)
(* value the distribution returned; note: midival of the conversion;       *)
(* rmin, rmax, scale: range_min, range_max and scale at that trigger; out: *)
(* the value emitted.                                                      *)
MidiHist0 ==
    [n |-> 0, raw |-> 0, note |-> 0, rmin |-> 0, rmax |-> 127, scale |-> 0,
     out |-> 0]

\* the triggers of one run
MaxNotes == 3

\* the body of the for-loop of TrigXnoiseMidi_generate_ii for sample i, from
\* the state e = [s, h, data]: every outcome over in[i] and the calls of
\* rand()
MidiSample(e, i) ==
    {[e EXCEPT !.data[i] = e.s.value]}
    \cup
    {LET s1 == [o.s EXCEPT !.value = o.val]
         s2 == [s1 EXCEPT !.value = TrigXnoiseMidi_convert(s1)]
     IN  [s |-> s2,
          h |-> [n |-> e.h.n + 1, raw |-> o.val, note |-> MidiNote(s1),
                 rmin |-> s1.range_min, rmax |-> s1.range_max,
                 scale |-> s1.scale, out |-> s2.value],
          data |-> [e.data EXCEPT ![i] = s2.value]] :
         o \in IF e.h.n < MaxNotes THEN midi_type_func_ptr(e.s) ELSE {}}

RECURSIVE MidiRun(_, _)
MidiRun(E, i) ==
    IF i > BufSize THEN E
    ELSE MidiRun(UNION {MidiSample(e, i) : e \in E}, i + 1)

\* TrigXnoiseMidi_generate_ii: the outcomes of one block
TrigXnoiseMidi_generate_ii(s, h, data) ==
    MidiRun({[s |-> [s EXCEPT !.xx1 = s.x1, !.xx2 = s.x2],
              h |-> h, data |-> data]}, 1)

\* TrigXnoiseMidi(input, type=4) or TrigXnoiseMidi(input, type=11)
MidiInit ==
    /\ \E type \in {4, 11} : midi = MidiCreate(type)
    /\ mdata = ZeroBlock
    /\ mhist = MidiHist0

MidiIdle ==
    /\ midi = MidiCreate(4)
    /\ mdata = ZeroBlock
    /\ mhist = MidiHist0

\* what the steps of the TrigXnoiseMidi object leave alone
MidiOnly ==
    UNCHANGED <<counterVars, threshVars, trigrandVars, trigchoiceVars,
                xnoiseVars, envVars, bindVars, auxVars>>

\* TrigXnoiseMidi_compute_next_data_frame (x1 and x2 numbers, mul = 1,
\* add = 0)
TrigXnoiseMidi_compute_next_data_frame ==
    \E r \in TrigXnoiseMidi_generate_ii(midi, mhist, mdata) :
        /\ MidiOnly
        /\ midi' = r.s
        /\ mdata' = r.data
        /\ mhist' = r.h

\* the tuples setRange is given
RangeVals == {<<40, 60>>, <<-10, 200>>}

TrigXnoiseMidi_setRange ==
    \E t \in RangeVals :
        /\ MidiOnly
        /\ midi' = [midi EXCEPT !.range_min = t[1], !.range_max = t[2],
                                !.centralkey = IntCast(t[2] + t[1], 2)]
        /\ UNCHANGED <<mdata, mhist>>

\* the ints setScale is given
ScaleVals == {0, 1, 2, 3}

\* the objects setScale is given.  isInt: PyInt_Check(arg); an int is the
\* C long hi * 2^32 + lo: the ints of ScaleVals, 2^32 + 1, and the float 1.0
ScaleArgs ==
    {[isInt |-> TRUE, hi |-> 0, lo |-> v] : v \in ScaleVals}
    \cup {[isInt |-> TRUE, hi |-> 1, lo |-> 1],
          [isInt |-> FALSE, hi |-> 0, lo |-> 1]}

\* tmp = PyInt_AsLong(arg): the long is cut to the 32 bits of the int tmp
\* (lo below 2^31 here)
LongToInt(arg) == arg.lo

\* the lines of TrigXnoiseMidi_setScale after the test of arg == NULL
MidiSetScale(s, arg) ==
    IF arg.isInt
    THEN LET tmp == LongToInt(arg)
         IN  IF tmp >= 0 /\ tmp <= 2 THEN [s EXCEPT !.scale = tmp] ELSE s
    ELSE s

TrigXnoiseMidi_setScale ==
    \E arg \in ScaleArgs :
        /\ MidiOnly
        /\ midi' = MidiSetScale(midi, arg)
        /\ UNCHANGED <<mdata, mhist>>

\* the numbers setX1 is given
MidiX1Vals == {1500}

\* TrigXnoiseMidi_setX1 with a number
TrigXnoiseMidi_setX1 ==
    \E v \in MidiX1Vals :
        /\ MidiOnly
        /\ midi' = [midi EXCEPT !.x1 = v]
        /\ UNCHANGED <<mdata, mhist>>

NextMidi ==
    \/ TrigXnoiseMidi_compute_next_data_frame
    \/ TrigXnoiseMidi_setRange
    \/ TrigXnoiseMidi_setScale
    \/ TrigXnoiseMidi_setX1

(* -------------------------------- TrigEnv ------------------------------ *)
\* TableStream_getSize(self->table)
TableSize == 2

\* the longest duration, in samples (self->sr * dur), a number given to
\* setDur or a sample of the dur stream stands for
MaxDur == 3

\* the durations: none, one sample, the longest
DurVals == {0, 1, MaxDur}

\* pointerPos, inc and the samples of TrigEnv are counted in 1/PosDen, which
\* every duration but 0 divides
PosDen == MaxDur

\* TableStream_getData(self->table): a ramp, the guard sample included
tablelist == [k \in 0..TableSize |-> k + 1]

\* what a read of tablelist[size + 1], past the guard sample, can give: a
\* number, or an infinity or a NaN
JunkNext == {0, NaN}

\* TrigEnv_new, then TrigEnv_init(input, table) up to the compute step it
\* ends with; dur and current_dur hold self->sr * dur, and the sampling rate
\* is MaxDur samples a second, so that the dur = 1. of TrigEnv_new is the
\* longest duration
EnvCreate ==
    [dur |-> MaxDur, current_dur |-> MaxDur, inc |-> 0, pointerPos |-> 0,
     active |-> 0, trigsBuffer |-> ZeroBlock]

\* if (in[i] == 1) { ... } of TrigEnv_readframes_i and _a; d: self->sr * dur
EnvTrigger_IfIdle(s, d) ==
    IF s.active = 1 THEN s
    ELSE [s EXCEPT !.current_dur = d,
                   !.inc = FDiv(TableSize * PosDen, d),
                   !.active = 1,
                   !.pointerPos = 0]

EnvTrigger(s, d) ==
    [s EXCEPT !.current_dur = d,
              !.inc = FDiv(TableSize * PosDen, d),
              !.active = 1,
              !.pointerPos = 0]

\* tablelist[ipart + 1] is read past the table
ReadsPastTable(s) == (s.pointerPos \div PosDen) + 1 > TableSize

\* if (self->active == 1) { ... } else ...: the sample written and the
\* struct after it
EnvRead_Half(s, junk) ==
    IF s.active = 1
    THEN [val |-> tablelist[s.pointerPos \div PosDen] * PosDen,
          s |-> [s EXCEPT !.pointerPos = FAdd(@, FDiv(s.inc, 2))]]
    ELSE [val |-> 0, s |-> s]

EnvRead(s, junk) ==
    IF s.active = 1
    THEN LET ipart == s.pointerPos \div PosDen
             fpart == s.pointerPos % PosDen
             x == tablelist[ipart]
             x1 == IF ReadsPastTable(s) THEN junk ELSE tablelist[ipart + 1]
         IN  [val |-> IF x1 = NaN THEN NaN
                      ELSE x * PosDen + (x1 - x) * fpart,
              s |-> [s EXCEPT !.pointerPos = FAdd(@, s.inc)]]
    ELSE [val |-> 0, s |-> s]

\* if (self->pointerPos > size && self->active == 1) { ... }
EnvEnd_Inclusive(s, i) ==
    IF s.pointerPos >= TableSize * PosDen /\ s.active = 1
    THEN [s EXCEPT !.trigsBuffer[i] = 1, !.active = 0]
    ELSE s

EnvEnd(s, i) ==
    IF s.pointerPos > TableSize * PosDen /\ s.active = 1
    THEN [s EXCEPT !.trigsBuffer[i] = 1, !.active = 0]
    ELSE s

(* The observer of the last block.  trig: the samples that held a trigger; *)
(* busy: those of them on which a read was under way (active, and past     *)
(* position 0) when the sample began; rpos: per sample, the position read  *)
(* (-1: none); over: the samples that read the table and left pointerPos   *)
(* above the table length; pulse: the samples whose trigsBuffer slot the   *)
(* block wrote; overPrev: the last sample of the block before was in over. *)
EnvHist0 ==
    [trig |-> {}, busy |-> {}, rpos |-> [i \in Indices |-> -1], over |-> {},
     pulse |-> {}, overPrev |-> FALSE]

EnvHistNew(h) == [EnvHist0 EXCEPT !.overPrev = BufSize \in h.over]

\* s: the struct when sample i begins, s1: after the trigger branch, r: the
\* outcome of the read, s3: the struct when sample i ends
EnvObserve(h, i, trg, s, s1, r, s3) ==
    [h EXCEPT
        !.trig = IF trg THEN @ \cup {i} ELSE @,
        !.busy = IF trg /\ s.active = 1 /\ s.pointerPos > 0
                 THEN @ \cup {i} ELSE @,
        !.rpos[i] = IF s1.active = 1 THEN s1.pointerPos ELSE -1,
        !.over = IF s1.active = 1 /\ r.s.pointerPos > TableSize * PosDen
                 THEN @ \cup {i} ELSE @,
        !.pulse = IF s3.trigsBuffer[i] = 1 /\ s3.active # r.s.active
                  THEN @ \cup {i} ELSE @]

\* the generator reads dur from a stream
DurIsStream(proc) == proc = "TrigEnv_readframes_a"

\* the body of the for-loop for sample i, from the state e = [s, h, data]:
\* every outcome over in[i], dur_st[i] and the read past the table
EnvSample(e, proc, i) ==
    UNION {LET trg == IsTrig(x)
               s1 == IF trg THEN EnvTrigger(e.s, d) ELSE e.s
           IN  {LET r == EnvRead(s1, junk)
                    s3 == EnvEnd(r.s, i)
                IN  [s |-> s3,
                     h |-> EnvObserve(e.h, i, trg, e.s, s1, r, s3),
                     data |-> [e.data EXCEPT ![i] = r.val]] :
                    junk \in IF s1.active = 1 /\ ReadsPastTable(s1)
                             THEN JunkNext ELSE {0}} :
               x \in {0, Unit},
               d \in IF DurIsStream(proc) THEN DurVals ELSE {e.s.dur}}

RECURSIVE EnvRun(_, _, _)
EnvRun(E, proc, i) ==
    IF i > BufSize THEN E
    ELSE EnvRun(UNION {EnvSample(e, proc, i) : e \in E}, proc, i + 1)

\* TrigEnv_readframes_i, TrigEnv_readframes_a (the one proc names): the
\* outcomes of one block
TrigEnv_readframes(s, h, data, proc) ==
    EnvRun({[s |-> s, h |-> EnvHistNew(h), data |-> data]}, proc, 1)

EnvInit ==
    /\ trigenv = EnvCreate
    /\ tedata = ZeroBlock
    /\ tehist = EnvHist0

\* what the steps of the TrigEnv object leave alone
EnvOnly ==
    UNCHANGED <<counterVars, threshVars, trigrandVars, trigchoiceVars,
                xnoiseVars, midiVars, bindVars, auxVars>>

\* TrigEnv_compute_next_data_frame (mul = 1, add = 0)
TrigEnv_compute_next_data_frame ==
    \E r \in TrigEnv_readframes(trigenv, tehist, tedata,
                                bind["TrigEnv"].proc_func_ptr) :
        /\ EnvOnly
        /\ trigenv' = r.s
        /\ tedata' = r.data
        /\ tehist' = r.h

\* TrigEnv_getTrigsBuffer, which TrigEnvTrig_compute_next_data_frame calls:
\* it hands the pulses over and clears trigsBuffer
TrigEnv_getTrigsBuffer ==
    /\ EnvOnly
    /\ trigenv' = [trigenv EXCEPT !.trigsBuffer = ZeroBlock]
    /\ UNCHANGED <<tedata, tehist>>

(* ----------------------- TrigEnv and its TrigEnvTrig -------------------- *)
\* the blocks of one run
MaxTapBlocks == 3

\* the for-loop of TrigEnv_getTrigsBuffer: the copy it returns and the
\* struct it leaves
TrigsBufferTake_Keep(s) ==
    [tmp |-> s.trigsBuffer, s |-> s]

TrigsBufferTake(s) ==
    [tmp |-> s.trigsBuffer, s |-> [s EXCEPT !.trigsBuffer = ZeroBlock]]

(* The observer.  turn: the object the server computes next, the TrigEnv   *)
(* ("env") or its tap ("tap"), each once a block; first: the one it began  *)
(* with; blocks: the compute steps of the TrigEnv so far; done: the reads  *)
(* that came to their end (the position passed the table length); cut: the *)
(* reads a trigger restarted before that; got: the samples of 1.0 the tap  *)
(* has put out; fresh: the samples on which a read ended in the steps of   *)
(* the TrigEnv since the last step of the tap; shown: fresh as it was when *)
(* the tap last ran; age: the samples the read that began at the last      *)
(* trigger has lasted, the trigger sample being the first.                 *)
TapHist0(t) ==
    [turn |-> t, first |-> t, blocks |-> 0, done |-> 0, cut |-> 0,
     got |-> 0, fresh |-> {}, shown |-> {}, age |-> 0]

\* age after a block whose observer is h
EnvAge(age, h) ==
    LET reads == {i \in Indices : h.rpos[i] # -1}
    IN  IF h.trig = {} THEN age + Cardinality(reads)
        ELSE Cardinality({i \in reads : \A t \in h.trig : i >= t})

\* TrigEnv(input, table, dur) with a number for dur, and the TrigEnvTrig
\* made with it; the server computes them in the order of Init's choice
TapInit ==
    /\ \E d \in DurVals : trigenv = [EnvCreate EXCEPT !.dur = d]
    /\ tedata = ZeroBlock
    /\ tehist = EnvHist0
    /\ envtrig = ZeroBlock
    /\ \E t \in {"env", "tap"} : tphist = TapHist0(t)

TapIdle ==
    /\ envtrig = ZeroBlock
    /\ tphist = TapHist0("env")

TapOnly ==
    UNCHANGED <<counterVars, threshVars, trigrandVars, trigchoiceVars,
                xnoiseVars, midiVars, bindVars, funcVars, hilbertVars,
                rangeVars, twinVars, indexVars>>

\* TrigEnv_compute_next_data_frame in its turn (mul = 1, add = 0)
TrigEnv_in_turn ==
    \E r \in TrigEnv_readframes(trigenv, tehist, tedata,
                                bind["TrigEnv"].proc_func_ptr) :
        /\ tphist.turn = "env"
        /\ tphist.blocks < MaxTapBlocks
        /\ TapOnly
        /\ trigenv' = r.s
        /\ tedata' = r.data
        /\ tehist' = r.h
        /\ tphist' = [tphist EXCEPT !.turn = "tap",
                                    !.blocks = @ + 1,
                                    !.done = @ + Cardinality(r.h.over),
                                    !.cut = @ + Cardinality(r.h.busy),
                                    !.fresh = @ \cup r.h.over,
                                    !.age = EnvAge(@, r.h)]
        /\ UNCHANGED envtrig

\* TrigEnvTrig_compute_next_data_frame in its turn
TrigEnvTrig_compute_next_data_frame ==
    LET t == TrigsBufferTake(trigenv)
    IN  /\ tphist.turn = "tap"
        /\ TapOnly
        /\ envtrig' = [i \in Indices |-> t.tmp[i]]
        /\ trigenv' = t.s
        /\ tphist' = [tphist EXCEPT
               !.turn = "env",
               !.got = @ + Cardinality({i \in Indices : t.tmp[i] = 1}),
               !.shown = tphist.fresh,
               !.fresh = {}]
        /\ UNCHANGED <<tedata, tehist>>

NextTap ==
    \/ TrigEnv_in_turn
    \/ TrigEnvTrig_compute_next_data_frame

(* -------------- Thresh: the two generators on one input ---------------- *)
\* the blocks the two objects compute in one run
MaxTwinBlocks == 3

\* Thresh(input, threshold, dir) twice on the same input: a with a stream
\* that holds t on every sample, i with the number t; blocks: the blocks
\* computed so far; both: one of them was computed with dir = 2
TwinCreate(t, d) ==
    [a |-> ThreshCreate(t, 1, d), i |-> ThreshCreate(t, 0, d), t |-> t,
     adata |-> ZeroBlock, idata |-> ZeroBlock, blocks |-> 0, both |-> FALSE]

TwinInit == \E t \in ThrLevels, d \in {0, 1, 2} : twin = TwinCreate(t, d)

TwinIdle == twin = TwinCreate(MaxLevel, 0)

TwinOnly ==
    UNCHANGED <<counterVars, threshVars, trigrandVars, trigchoiceVars,
                xnoiseVars, midiVars, envVars, bindVars, funcVars,
                hilbertVars, rangeVars, tapVars, indexVars>>

\* Thresh_compute_next_data_frame of both objects on the input block in
\* (mul = 1, add = 0)
Twin_compute_next_data_frame ==
    \E in \in Blocks(Levels) :
        LET thr == [k \in Indices |-> twin.t]
            ra == Thresh_proc(twin.a, in, thr, twin.adata)
            ri == Thresh_proc(twin.i, in, thr, twin.idata)
        IN  /\ twin.blocks < MaxTwinBlocks
            /\ TwinOnly
            /\ twin' = [twin EXCEPT !.a = ra.th, !.adata = ra.data,
                                    !.i = ri.th, !.idata = ri.data,
                                    !.blocks = @ + 1,
                                    !.both = @ \/ twin.a.dir = 2]

\* Thresh_setDir of both objects with the same direction
Twin_setDir ==
    \E d \in {0, 1, 2} :
        /\ twin.blocks > 0
        /\ TwinOnly
        /\ twin' = [twin EXCEPT !.a.dir = d, !.i.dir = d]

NextTwin ==
    \/ Twin_compute_next_data_frame
    \/ Twin_setDir

(* -------------------------------- TrigFunc ----------------------------- *)
\* the function objects given as callback
FuncVals == {"f", "g"}

\* TrigFunc_new, then TrigFunc_init(input, function) up to the compute step
\* it ends with
TrigFuncCreate == [func |-> "f"]

\* the body of the for-loop of TrigFunc_generate for sample i; log: the
\* calls made so far in this compute step, each with the sample it was made
\* on and the function called
TrigFuncSample_Once(s, log, x, i) ==
    IF IsTrig(x) /\ log = <<>>
    THEN Append(log, [i |-> i, func |-> s.func])
    ELSE log

TrigFuncSample(s, log, x, i) ==
    IF IsTrig(x) THEN Append(log, [i |-> i, func |-> s.func]) ELSE log

RECURSIVE TrigFuncRun(_, _, _, _)
TrigFuncRun(s, log, in, i) ==
    IF i > BufSize THEN log
    ELSE TrigFuncRun(s, TrigFuncSample(s, log, in[i], i), in, i + 1)

\* TrigFunc_generate: the calls of one compute step, in the order made
TrigFunc_generate(s, in) == TrigFuncRun(s, <<>>, in, 1)

\* the trigger samples of one run
MaxCalls == 4

(* The observer.  ones: the samples of the last input block that held 1.0; *)
(* ntrig: such samples over the run; ncalls: the calls over the run; err:  *)
(* what the last setFunction reported.                                     *)
FuncHist0 == [ones |-> {}, ntrig |-> 0, ncalls |-> 0, err |-> "none"]

FuncInit ==
    /\ trigfunc = TrigFuncCreate
    /\ tflog = <<>>
    /\ tfhist = FuncHist0

\* what the steps of the TrigFunc object leave alone
FuncOnly ==
    UNCHANGED <<counterVars, threshVars, trigrandVars, trigchoiceVars,
                xnoiseVars, midiVars, envVars, bindVars, hilbertVars,
                rangeVars, tapVars, twinVars, indexVars>>

\* TrigFunc_compute_next_data_frame
TrigFunc_compute_next_data_frame ==
    \E in \in Blocks(InVals) :
        LET ones == {i \in Indices : in[i] = Unit}
            log == TrigFunc_generate(trigfunc, in)
        IN  /\ tfhist.ntrig + Cardinality(ones) <= MaxCalls
            /\ FuncOnly
            /\ tflog' = log
            /\ tfhist' = [tfhist EXCEPT !.ones = ones,
                                        !.ntrig = @ + Cardinality(ones),
                                        !.ncalls = @ + Len(log)]
            /\ UNCHANGED trigfunc

\* TrigFunc_setFunction with a function, or with an object that is none
TrigFunc_setFunction ==
    \E arg \in FuncVals \cup {"number"} :
        /\ FuncOnly
        /\ trigfunc' = IF arg \in FuncVals THEN [trigfunc EXCEPT !.func = arg]
                       ELSE trigfunc
        /\ tfhist' = [tfhist EXCEPT !.err = IF arg \in FuncVals THEN "none"
                                            ELSE "TypeError"]
        /\ UNCHANGED tflog

NextFunc ==
    \/ TrigFunc_compute_next_data_frame
    \/ TrigFunc_setFunction

(* -------------------------------- Hilbert ------------------------------ *)
\* the indices of the 12 sections: chain 0..5 and chain 6..11
Sections == 0..11

\* self->coefs after HilbertMain_compute_variables: whole numbers stand for
\* the twelve floats (-1: the section negates, 0: it delays by one sample),
\* no two neighbours alike, the two chains unlike
coefs == [j \in Sections |-> IF (j + j \div 6) % 2 = 0 THEN -1 ELSE 0]

\* the values an input sample of the filter takes
HilbertIn == {0, 1}

\* HilbertMain_new, then HilbertMain_init(input) up to the compute step it
\* ends with; buffer_streams counts from 0 and holds 2 * bufsize samples
HilbertCreate ==
    [x1 |-> [j \in Sections |-> 0], y1 |-> [j \in Sections |-> 0],
     buffer_streams |-> [k \in 0..(2 * BufSize - 1) |-> 0]]

\* one pass of for (j=0; j<6; j++) { ... } from section j on; c = [s, xn1,
\* yn1]
RECURSIVE FirstChain(_, _)
FirstChain(c, j) ==
    IF j >= 6 THEN c
    ELSE LET yn1 == coefs[j] * (c.xn1 - c.s.y1[j]) + c.s.x1[j]
         IN  FirstChain([s |-> [c.s EXCEPT !.x1[j] = c.xn1, !.y1[j] = yn1],
                         xn1 |-> yn1, yn1 |-> yn1], j + 1)

\* one pass of for (j=6; j<12; j++) { ... } from section j on; c = [s, xn1,
\* yn1, xn2, yn2]: the body stores xn1 and yn1, the values the first loop
\* left
RECURSIVE SecondChain(_, _)
SecondChain(c, j) ==
    IF j >= 12 THEN c
    ELSE LET yn2 == coefs[j] * (c.xn2 - c.s.y1[j]) + c.s.x1[j]
         IN  SecondChain([c EXCEPT !.s.x1[j] = c.xn1, !.s.y1[j] = c.yn1,
                                   !.xn2 = yn2, !.yn2 = yn2], j + 1)

\* the body of the outer for-loop of HilbertMain_filters for sample i
\* (counted from 1) holding x
HilbertSample(s, x, i) ==
    LET a == FirstChain([s |-> s, xn1 |-> x, yn1 |-> 0], 0)
        b == SecondChain([s |-> a.s, xn1 |-> a.xn1, yn1 |-> a.yn1,
                          xn2 |-> x, yn2 |-> 0], 6)
    IN  [b.s EXCEPT !.buffer_streams[i - 1] = b.yn1,
                    !.buffer_streams[i - 1 + BufSize] = b.yn2]

RECURSIVE HilbertRun(_, _, _)
HilbertRun(s, in, i) ==
    IF i > BufSize THEN s
    ELSE HilbertRun(HilbertSample(s, in[i], i), in, i + 1)

HilbertMain_filters(s, in) == HilbertRun(s, in, 1)

\* the recurrence of one chain with sections lo..hi, each section with its
\* own memories: c = [x1, y1, x] where x is what section j receives
RECURSIVE AllpassChain(_, _, _)
AllpassChain(c, j, hi) ==
    IF j > hi THEN c
    ELSE LET y == coefs[j] * (c.x - c.y1[j]) + c.x1[j]
         IN  AllpassChain([x1 |-> [c.x1 EXCEPT ![j] = c.x],
                           y1 |-> [c.y1 EXCEPT ![j] = y], x |-> y],
                          j + 1, hi)

\* both chains fed the sample x from the memories r = [x1, y1]
AllpassSample(r, x) ==
    LET a == AllpassChain([x1 |-> r.x1, y1 |-> r.y1, x |-> x], 0, 5)
        b == AllpassChain([x1 |-> a.x1, y1 |-> a.y1, x |-> x], 6, 11)
    IN  [x1 |-> b.x1, y1 |-> b.y1, re |-> a.x, im |-> b.x]

\* the observer's own filter over one block, from h = [x1, y1, out]
RECURSIVE AllpassRun(_, _, _)
AllpassRun(h, in, i) ==
    IF i > BufSize THEN h
    ELSE LET r == AllpassSample(h, in[i])
         IN  AllpassRun([x1 |-> r.x1, y1 |-> r.y1,
                         out |-> [h.out EXCEPT ![i - 1] = r.re,
                                               ![i - 1 + BufSize] = r.im]],
                        in, i + 1)

\* the compute steps of the main filter in one run
MaxFrames == 3

(* The observer.  frames: the compute steps of the main filter so far;     *)
(* ref: the memories and the two-channel block of the observer's own       *)
(* filter fed the same input; main: buffer_streams as the last compute     *)
(* step of the main filter left it; at: per tap, the compute step of the   *)
(* main filter its last read followed (0: none); reads: per tap, its reads *)
(* since that step; order: the taps in the order of their first read since *)
(* that step.                                                              *)
HilbertHist0 ==
    [frames |-> 0,
     ref |-> [x1 |-> [j \in Sections |-> 0], y1 |-> [j \in Sections |-> 0],
              out |-> [k \in 0..(2 * BufSize - 1) |-> 0]],
     main |-> [k \in 0..(2 * BufSize - 1) |-> 0],
     at |-> [c \in {0, 1} |-> 0], reads |-> [c \in {0, 1} |-> 0],
     order |-> <<>>]

HilbertInit ==
    /\ hilbert = HilbertCreate
    /\ htap = [c \in {0, 1} |-> ZeroBlock]
    /\ hhist = HilbertHist0

\* what the steps of the Hilbert objects leave alone
HilbertOnly ==
    UNCHANGED <<counterVars, threshVars, trigrandVars, trigchoiceVars,
                xnoiseVars, midiVars, envVars, bindVars, funcVars,
                rangeVars, tapVars, twinVars, indexVars>>

\* HilbertMain_compute_next_data_frame
HilbertMain_compute_next_data_frame ==
    \E in \in Blocks(HilbertIn) :
        LET s == HilbertMain_filters(hilbert, in)
        IN  /\ hhist.frames < MaxFrames
            /\ HilbertOnly
            /\ hilbert' = s
            /\ hhist' = [hhist EXCEPT !.frames = @ + 1,
                                      !.ref = AllpassRun(@, in, 1),
                                      !.main = s.buffer_streams,
                                      !.reads = [c \in {0, 1} |-> 0],
                                      !.order = <<>>]
            /\ UNCHANGED htap

\* the for-loop of Hilbert_compute_next_data_frame: tmp is the buffer
\* HilbertMain_getSamplesBuffer returns
HilbertTap_Near(tmp, chnl) ==
    [i \in Indices |-> tmp[(i - 1) + chnl]]

HilbertTap(tmp, chnl) ==
    LET offset == chnl * BufSize
    IN  [i \in Indices |-> tmp[(i - 1) + offset]]

\* the reads of one tap between two compute steps of the main filter
MaxReads == 2

\* Hilbert_compute_next_data_frame of the tap made with chnl = c (mul = 1,
\* add = 0); a tap is made from a main filter whose init is over, that is
\* after the first compute step of the main filter
Hilbert_compute_next_data_frame ==
    \E c \in {0, 1} :
        /\ hhist.frames > 0
        /\ hhist.reads[c] < MaxReads
        /\ HilbertOnly
        /\ htap' = [htap EXCEPT ![c] = HilbertTap(hilbert.buffer_streams, c)]
        /\ hhist' = [hhist EXCEPT !.at[c] = hhist.frames,
                                  !.reads[c] = @ + 1,
                                  !.order = IF hhist.reads[c] = 0
                                            THEN Append(@, c) ELSE @]
        /\ UNCHANGED hilbert

NextHilbert ==
    \/ HilbertMain_compute_next_data_frame
    \/ Hilbert_compute_next_data_frame

(* ------------------ TrigRand with min or max a stream ------------------- *)
\* the values a sample of the min stream and of the max stream takes, and
\* the init keyword argument, in units of 1/Unit
MinStreamVals == {1, Unit + 1}

MaxStreamVals == {1, Unit}

InitArgs == {Unit + 2}

\* a sample of the input stream with the draw of its trigger: the least and
\* the greatest ratio rand() gives
RangeSamples == {<<0, 0>>, <<Unit, 0>>, <<Unit, Unit>>}

\* mi and ma (or mi[i], ma[i]) as the generator proc reads them for sample i
TrigRandLimits_First(s, proc, mi, ma, i) ==
    CASE proc = "TrigRand_generate_ii" -> <<s.min, s.max>>
      [] proc = "TrigRand_generate_ai" -> <<mi[1], s.max>>
      [] proc = "TrigRand_generate_ia" -> <<s.min, ma[1]>>
      [] proc = "TrigRand_generate_aa" -> <<mi[1], ma[1]>>

TrigRandLimits(s, proc, mi, ma, i) ==
    CASE proc = "TrigRand_generate_ii" -> <<s.min, s.max>>
      [] proc = "TrigRand_generate_ai" -> <<mi[i], s.max>>
      [] proc = "TrigRand_generate_ia" -> <<s.min, ma[i]>>
      [] proc = "TrigRand_generate_aa" -> <<mi[i], ma[i]>>

(* The observer.  init: the init argument; computed: a compute step has    *)
(* run; ntrig: the triggers so far; pre: every sample computed before the  *)
(* first trigger equalled init; lo, hi: min and max in force on the sample *)
(* of the last trigger, a stream's sample where the parameter was last set *)
(* to a stream and the stored number otherwise.                            *)
RangeHist0(init) ==
    [init |-> init, computed |-> FALSE, ntrig |-> 0, pre |-> TRUE,
     lo |-> 0, hi |-> 0]

RangeObserve(h, s, s2, u, x, mi, ma, i) ==
    IF IsTrig(x)
    THEN [h EXCEPT !.ntrig = @ + 1,
                   !.lo = IF u.modebuffer[2] = 1 THEN mi[i] ELSE s.min,
                   !.hi = IF u.modebuffer[3] = 1 THEN ma[i] ELSE s.max]
    ELSE IF h.ntrig = 0
    THEN [h EXCEPT !.pre = @ /\ s2.currentValue = h.init * Den]
    ELSE h

\* the for-loop of the generator u.proc_func_ptr names, from sample i on
RECURSIVE TrigRandStreams(_, _, _, _, _, _, _, _)
TrigRandStreams(s, h, u, in, mi, ma, i, data) ==
    IF i > BufSize THEN [s |-> s, h |-> h, data |-> data]
    ELSE LET lim == TrigRandLimits(s, u.proc_func_ptr, mi, ma, i)
             s2 == GlideAdvance(
                       IF IsTrig(in[i][1])
                       THEN GlideRetarget(s, TrigRandDraw(lim[1], lim[2],
                                                          in[i][2]))
                       ELSE s)
         IN  TrigRandStreams(s2,
                             RangeObserve(h, s, s2, u, in[i][1], mi, ma, i),
                             u, in, mi, ma, i + 1,
                             [data EXCEPT ![i] = s2.currentValue])

\* the blocks of a parameter's stream that differ on a sample a trigger of
\* the block in reads; one block when the tag says the parameter is a number
StreamBlocks(tag, S, in) ==
    IF tag = 1
    THEN {b \in Blocks(S) :
              \A i \in Indices : ~IsTrig(in[i][1]) => b[i] = 1}
    ELSE {ZeroBlock}

\* TrigRand(input, min, max, port, init) with numbers for min and max
RangeInit ==
    /\ \E init \in InitArgs, port \in {0, 2 * PortDen} :
           /\ trigrand = TrigRandCreate(0, Unit, port, init)
           /\ rhist = RangeHist0(init)
    /\ trdata = ZeroBlock
    /\ trhist = GlideHist0

RangeIdle == rhist = RangeHist0(0)

\* TrigRand_compute_next_data_frame with the generator setProcMode bound:
\* (*self->proc_func_ptr)(self) on a block of input samples and draws and on
\* the blocks of the min and max streams (mul = 1, add = 0)
TrigRand_proc_func_ptr ==
    LET u == bind["TrigRand"]
    IN  \E in \in Blocks(RangeSamples) :
        \E mi \in StreamBlocks(u.modebuffer[2], MinStreamVals, in),
           ma \in StreamBlocks(u.modebuffer[3], MaxStreamVals, in) :
            LET r == TrigRandStreams(trigrand, rhist, u, in, mi, ma, 1,
                                     trdata)
            IN  /\ rhist.ntrig + NumTrigs(in) <= MaxTrigs
                /\ UNCHANGED <<counterVars, threshVars, trigchoiceVars,
                               xnoiseVars, midiVars, envVars, bindVars,
                               funcVars, hilbertVars, tapVars, twinVars,
                               indexVars, trhist>>
                /\ trigrand' = r.s
                /\ trdata' = r.data
                /\ rhist' = [r.h EXCEPT !.computed = TRUE]

(* -------------------------- parameter setters --------------------------- *)
\* the numbers setMin is given
MinVals == {0, 1}

\* TrigRand_setMin with a number, or with an object that has a stream
TrigRand_setMin ==
    /\ BindOnly
    /\ \/ \E v \in MinVals :
              /\ trigrand' = [trigrand EXCEPT !.min = v]
              /\ bind' = SetTag(bind, "TrigRand", 2, 0)
              /\ bhist' = BindObserve(bhist, bind, "TrigRand", 2, 0)
       \/ /\ bind' = SetTag(bind, "TrigRand", 2, 1)
          /\ bhist' = BindObserve(bhist, bind, "TrigRand", 2, 1)
          /\ UNCHANGED trigrand
    /\ UNCHANGED <<xnoise, trigenv>>

\* TrigRand_setMax with a number, or with an object that has a stream
TrigRand_setMax ==
    /\ BindOnly
    /\ \/ /\ trigrand' = [trigrand EXCEPT !.max = Unit]
          /\ bind' = SetTag(bind, "TrigRand", 3, 0)
          /\ bhist' = BindObserve(bhist, bind, "TrigRand", 3, 0)
       \/ /\ bind' = SetTag(bind, "TrigRand", 3, 1)
          /\ bhist' = BindObserve(bhist, bind, "TrigRand", 3, 1)
          /\ UNCHANGED trigrand
    /\ UNCHANGED <<xnoise, trigenv>>

\* TrigXnoise_setX1, TrigXnoise_setX2, TrigEnv_setDur with a number or with
\* an object that has a stream
TrigXnoise_setX1 ==
    /\ BindOnly
    /\ \/ \E v \in X1Vals :
              /\ xnoise' = [xnoise EXCEPT !.x1 = v]
              /\ bind' = SetTag(bind, "TrigXnoise", 2, 0)
              /\ bhist' = BindObserve(bhist, bind, "TrigXnoise", 2, 0)
       \/ /\ bind' = SetTag(bind, "TrigXnoise", 2, 1)
          /\ bhist' = BindObserve(bhist, bind, "TrigXnoise", 2, 1)
          /\ UNCHANGED xnoise
    /\ UNCHANGED <<trigrand, trigenv>>

\* TrigXnoise_setX1 with a number, those far above the table included
TrigXnoise_setX1_far ==
    \E v \in X1Vals \cup X1Far :
        /\ BindOnly
        /\ xnoise' = [xnoise EXCEPT !.x1 = v]
        /\ bind' = SetTag(bind, "TrigXnoise", 2, 0)
        /\ bhist' = BindObserve(bhist, bind, "TrigXnoise", 2, 0)
        /\ UNCHANGED <<trigrand, trigenv>>

TrigXnoise_setX2 ==
    /\ BindOnly
    /\ \/ /\ xnoise' = [xnoise EXCEPT !.x2 = Milli \div 2]
          /\ bind' = SetTag(bind, "TrigXnoise", 3, 0)
          /\ bhist' = BindObserve(bhist, bind, "TrigXnoise", 3, 0)
       \/ /\ bind' = SetTag(bind, "TrigXnoise", 3, 1)
          /\ bhist' = BindObserve(bhist, bind, "TrigXnoise", 3, 1)
          /\ UNCHANGED xnoise
    /\ UNCHANGED <<trigrand, trigenv>>

TrigEnv_setDur ==
    /\ BindOnly
    /\ \/ \E v \in DurVals :
              /\ trigenv' = [trigenv EXCEPT !.dur = v]
              /\ bind' = SetTag(bind, "TrigEnv", 2, 0)
              /\ bhist' = BindObserve(bhist, bind, "TrigEnv", 2, 0)
       \/ /\ bind' = SetTag(bind, "TrigEnv", 2, 1)
          /\ bhist' = BindObserve(bhist, bind, "TrigEnv", 2, 1)
          /\ UNCHANGED trigenv
    /\ UNCHANGED <<trigrand, xnoise>>

\* the tags a multiplier or an offset can carry: 0 a number, 1 a stream,
\* 2 a stream used reversed (setDiv, setSub)
MulAddTags == {0, 1, 2}

\* TrigRand_setMul, TrigRand_setDiv (slot 0), TrigRand_setAdd, TrigRand_setSub
\* (slot 1): they store the tag of their argument and call mode_func_ptr
TrigRand_setMulAdd ==
    \E k \in {0, 1}, tag \in MulAddTags :
        /\ BindOnly
        /\ bind' = SetTag(bind, "TrigRand", k, tag)
        /\ UNCHANGED <<bhist, trigrand, xnoise, trigenv>>

\* Hilbert_setMul, Hilbert_setDiv (slot 0), Hilbert_setAdd, Hilbert_setSub
\* (slot 1)
Hilbert_setMulAdd ==
    \E k \in {0, 1}, tag \in MulAddTags :
        /\ BindOnly
        /\ bind' = SetTag(bind, "Hilbert", k, tag)
        /\ UNCHANGED <<bhist, trigrand, xnoise, trigenv>>

NextBind ==
    \/ TrigRand_setMin
    \/ TrigRand_setMax
    \/ TrigXnoise_setX1
    \/ TrigXnoise_setX2
    \/ TrigEnv_setDur
    \/ Thresh_setThreshold

NextRange ==
    \/ TrigRand_proc_func_ptr
    \/ TrigRand_setMin
    \/ TrigRand_setMax

NextEnv ==
    \/ TrigEnv_compute_next_data_frame
    \/ TrigEnv_getTrigsBuffer
    \/ TrigEnv_setDur

NextPoisson ==
    \/ TrigXnoise_compute_next_data_frame
    \/ TrigXnoise_setX1

NextPoissonFar ==
    \/ TrigXnoise_compute_next_data_frame
    \/ TrigXnoise_setX1_far

NextLoopType ==
    \/ TrigXnoise_compute_next_data_frame
    \/ TrigXnoise_setType

NextWalker ==
    \/ TrigXnoise_compute_next_data_frame
    \/ TrigXnoise_setX1
    \/ TrigXnoise_setX2

NextLoopseg ==
    TrigXnoise_compute_next_data_frame

NextMulAdd ==
    \/ TrigRand_setMin
    \/ TrigRand_setMax
    \/ TrigRand_setMulAdd
    \/ Hilbert_setMulAdd

(* --------------------------- specifications ---------------------------- *)
NextCounter ==
    \/ Counter_compute_next_data_frame
    \/ Counter_setMin
    \/ Counter_setMax
    \/ Counter_setDir

NextTrigRand ==
    \/ TrigRand_compute_next_data_frame
    \/ TrigRand_setPort

NextTrigChoice ==
    \/ TrigChoice_compute_next_data_frame
    \/ TrigChoice_setPort

GlideIdle == TrigRandIdle /\ TrigChoiceIdle

\* the objects modelled after TrigEnv, untouched
AuxIdle ==
    FuncInit /\ HilbertInit /\ RangeIdle /\ TapIdle /\ TwinIdle /\ IndexIdle

\* every object modelled before TrigFunc, untouched
CoreIdle ==
    CounterIdle /\ ThreshIdle /\ GlideIdle /\ BindInit /\ XnoiseIdle
    /\ MidiIdle /\ EnvInit

InitCounterOnly ==
    CounterInit /\ ThreshIdle /\ GlideIdle /\ BindInit
    /\ XnoiseIdle /\ MidiIdle /\ EnvInit /\ AuxIdle

SpecCounter ==
    InitCounterOnly /\ [][NextCounter]_vars

InitCounterOrdered ==
    CounterOrderedInit /\ ThreshIdle /\ GlideIdle /\ BindInit
    /\ XnoiseIdle /\ MidiIdle /\ EnvInit /\ AuxIdle

SpecCounterOrdered ==
    InitCounterOrdered /\ [][NextCounterOrdered]_vars

InitThreshOnly ==
    ThreshInit /\ CounterIdle /\ GlideIdle /\ BindInit
    /\ XnoiseIdle /\ MidiIdle /\ EnvInit /\ AuxIdle

SpecThresh ==
    InitThreshOnly /\ [][NextThresh]_vars

\* every object as its constructor leaves it when only the input is given
InitBind ==
    CounterIdle /\ ThreshIdle /\ GlideIdle /\ BindInit
    /\ XnoiseIdle /\ MidiIdle /\ EnvInit /\ AuxIdle

SpecBind ==
    InitBind /\ [][NextBind]_vars

SpecMulAdd ==
    InitBind /\ [][NextMulAdd]_vars

InitTrigRandOnly ==
    TrigRandInit /\ CounterIdle /\ ThreshIdle /\ TrigChoiceIdle /\ BindInit
    /\ XnoiseIdle /\ MidiIdle /\ EnvInit /\ AuxIdle

SpecTrigRand ==
    InitTrigRandOnly /\ [][NextTrigRand]_vars

\* the server goes on computing blocks
SpecTrigRandFair ==
    SpecTrigRand /\ WF_vars(TrigRand_compute_next_data_frame)

InitTrigChoiceOnly ==
    TrigChoiceInit /\ CounterIdle /\ ThreshIdle /\ TrigRandIdle /\ BindInit
    /\ XnoiseIdle /\ MidiIdle /\ EnvInit /\ AuxIdle

InitPoisson ==
    XnoiseInit /\ CounterIdle /\ ThreshIdle /\ GlideIdle /\ BindInit
    /\ MidiIdle /\ EnvInit /\ AuxIdle

SpecPoisson ==
    InitPoisson /\ [][NextPoisson]_vars

SpecPoissonFar ==
    InitPoisson /\ [][NextPoissonFar]_vars

InitLoopseg ==
    LoopsegInit /\ CounterIdle /\ ThreshIdle /\ GlideIdle /\ MidiIdle
    /\ EnvInit /\ AuxIdle

SpecLoopseg ==
    InitLoopseg /\ [][NextLoopseg]_vars

InitWalker ==
    WalkerInit /\ CounterIdle /\ ThreshIdle /\ GlideIdle /\ MidiIdle
    /\ EnvInit /\ AuxIdle

SpecWalker ==
    InitWalker /\ [][NextWalker]_vars

InitLoopType ==
    LoopTypeInit /\ CounterIdle /\ ThreshIdle /\ GlideIdle /\ MidiIdle
    /\ EnvInit /\ AuxIdle

SpecLoopType ==
    InitLoopType /\ [][NextLoopType]_vars

\* the trigger stream never ends
SpecLoopsegFair ==
    SpecLoopseg /\ WF_vars(TrigXnoise_trigger_frame)

SpecTrigChoice ==
    InitTrigChoiceOnly /\ [][NextTrigChoice]_vars

SpecSetChoice ==
    InitTrigChoiceOnly /\ [][NextSetChoice]_vars

InitMidi ==
    MidiInit /\ CounterIdle /\ ThreshIdle /\ GlideIdle /\ BindInit
    /\ XnoiseIdle /\ EnvInit /\ AuxIdle

SpecMidi ==
    InitMidi /\ [][NextMidi]_vars

InitEnv ==
    EnvInit /\ CounterIdle /\ ThreshIdle /\ GlideIdle /\ BindInit
    /\ XnoiseIdle /\ MidiIdle /\ AuxIdle

SpecEnv ==
    InitEnv /\ [][NextEnv]_vars

InitFunc ==
    FuncInit /\ CoreIdle /\ HilbertInit /\ RangeIdle /\ TapIdle /\ TwinIdle
    /\ IndexIdle

SpecFunc ==
    InitFunc /\ [][NextFunc]_vars

InitHilbert ==
    HilbertInit /\ CoreIdle /\ FuncInit /\ RangeIdle /\ TapIdle /\ TwinIdle
    /\ IndexIdle

SpecHilbert ==
    InitHilbert /\ [][NextHilbert]_vars

InitRange ==
    RangeInit /\ CounterIdle /\ ThreshIdle /\ TrigChoiceIdle /\ BindInit
    /\ XnoiseIdle /\ MidiIdle /\ EnvInit /\ FuncInit /\ HilbertInit
    /\ TapIdle /\ TwinIdle /\ IndexIdle

SpecRange ==
    InitRange /\ [][NextRange]_vars

InitTap ==
    TapInit /\ CounterIdle /\ ThreshIdle /\ GlideIdle /\ BindInit
    /\ XnoiseIdle /\ MidiIdle /\ FuncInit /\ HilbertInit /\ RangeIdle
    /\ TwinIdle /\ IndexIdle

SpecTap ==
    InitTap /\ [][NextTap]_vars

InitTwin ==
    TwinInit /\ CoreIdle /\ FuncInit /\ HilbertInit /\ RangeIdle /\ TapIdle
    /\ IndexIdle

SpecTwin ==
    InitTwin /\ [][NextTwin]_vars

InitIndex ==
    IndexInit /\ CounterIdle /\ ThreshIdle /\ TrigRandIdle /\ BindInit
    /\ XnoiseIdle /\ MidiIdle /\ EnvInit /\ FuncInit /\ HilbertInit
    /\ RangeIdle /\ TapIdle /\ TwinIdle

SpecIndex ==
    InitIndex /\ [][NextIndex]_vars

(* ------------------------- Counter: properties -------------------------- *)
\* the object still has the min, max and dir it was constructed with
CounterFixed == chist.nset = 0

Pairs(s) == 1..(Len(s) - 1)

\* C1: Counter in forward mode (dir = 0) with min <= max fixed: the first
\* trigger emits min, every later trigger emits the previous value plus 1,
\* and the trigger after the one that emitted max emits min again.
C1_ForwardCycle ==
    (CounterFixed /\ counter.dir = 0 /\ counter.min <= counter.max) =>
        /\ (chist.prev = <<>> /\ Emits # <<>>) => Emits[1] = counter.min
        /\ \A j \in Pairs(Emitted) :
               Emitted[j + 1] = IF Emitted[j] = counter.max
                                THEN counter.min ELSE Emitted[j] + 1

\* forward mode has emitted max and then wrapped to a smaller min
C1_Witness ==
    /\ CounterFixed /\ counter.dir = 0 /\ counter.min < counter.max
    /\ \E j \in Pairs(Emitted) :
           Emitted[j] = counter.max /\ Emitted[j + 1] = counter.min

\* C2: Counter in ping-pong mode (dir = 2) with min <= max fixed: every value
\* emitted on a trigger lies in [min, max], after any number of triggers.
C2_PingPongRange ==
    (CounterFixed /\ counter.dir = 2 /\ counter.min <= counter.max) =>
        /\ \A j \in 1..Len(Emitted) :
               counter.min <= Emitted[j] /\ Emitted[j] <= counter.max
        /\ counter.min <= counter.tmp /\ counter.tmp <= counter.max

\* ping-pong mode has turned round at the top and gone on emitting
C2_Witness ==
    /\ CounterFixed /\ counter.dir = 2 /\ counter.min < counter.max
    /\ counter.direction = -1
    /\ Len(Emitted) >= 3

\* C3: Counter in ping-pong mode with min < max: consecutive emitted values
\* differ by exactly 1, the value after max is max - 1, the value after min
\* is min + 1, and between the bounds the direction is kept (so every sweep
\* emits both max and min).
C3_PingPongSweep ==
    (CounterFixed /\ counter.dir = 2 /\ counter.min < counter.max) =>
        /\ \A j \in Pairs(Emitted) :
               /\ Abs(Emitted[j + 1] - Emitted[j]) = 1
               /\ Emitted[j] = counter.max => Emitted[j + 1] = counter.max - 1
               /\ Emitted[j] = counter.min => Emitted[j + 1] = counter.min + 1
        /\ \A j \in 1..(Len(Emitted) - 2) :
               (Emitted[j + 1] # counter.min /\ Emitted[j + 1] # counter.max) =>
                   Emitted[j + 2] - Emitted[j + 1] = Emitted[j + 1] - Emitted[j]

\* C7: the trigger branch of a compute step runs on exactly the samples of
\* the input block whose value equals 1.0: once per such sample, so k
\* consecutive samples equal to 1.0 cause k reactions, and on no sample
\* holding another value (0, a fraction, 2.0).
C7_TriggerEquality ==
    chist.react = chist.ones

\* a block of consecutive 1.0 samples: the counter stepped on every one of them
C7_Witness ==
    /\ chist.ones = Indices
    /\ chist.react = Indices
    /\ CounterFixed /\ counter.dir = 0 /\ counter.max - counter.min >= BufSize
    /\ \A i \in Indices : cdata[i] = counter.min + i - 1

(* -------------------------- Thresh: properties -------------------------- *)
\* the object still has the dir and the threshold it was constructed with
ThreshFixed == thist.nset = 0

\* C4: Thresh in upward mode (dir = 0) with a fixed constant threshold: for an
\* input that is <= threshold on every sample before index k and > threshold
\* on every sample from k on, the output is 1.0 at index k and 0.0 at every
\* other index, in the block of k and in every block before and after it.
C4_StepPulse ==
    (ThreshFixed /\ thresh.mode = 0 /\ thresh.dir = 0 /\ thist.step # "broken") =>
        \A i \in Indices : tdata[i] = IF i = thist.cross THEN 1 ELSE 0

\* a block that lies wholly after the crossing: the input is still above the
\* threshold, the latch is spent and the block holds no pulse
C4_Witness ==
    /\ ThreshFixed /\ thresh.mode = 0 /\ thresh.dir = 0
    /\ thist.step = "above" /\ thist.cross = 0
    /\ thist.ready0 = 0 /\ thresh.ready = 0
    /\ tdata = ZeroBlock

\* C5: Thresh, in every mode and for both the constant-threshold and the
\* stream-threshold generator: after a pulse no further pulse is written while
\* the input has stayed on the same side of the threshold ever since (it must
\* first reach or pass the threshold in the opposite direction); in particular
\* two consecutive samples on the same side never both carry a pulse.
C5_NoDoublePulse ==
    (ThreshFixed /\ thresh.dir \in {0, 1, 2}) => ~thist.dbl

\* C6: Thresh in upward or downward mode: a sample whose input equals the
\* threshold exactly carries no pulse, whatever the latch held when the
\* compute step began (both generators).
C6_NoPulseAtThreshold ==
    thist.dir \in {0, 1} => \A i \in thist.eq : tdata[i] = 0

\* a whole block hovering at the threshold, entered with the latch spent
C6_Witness ==
    /\ thist.dir \in {0, 1}
    /\ thist.eq = Indices
    /\ thist.ready0 = 0
    /\ tdata = ZeroBlock

(* -------------------- properties of the glide objects ------------------- *)
\* the port time t >= 0 (in 1/PortDen sample) rounded to the nearest whole
\* number of samples
Nearest(t) == (2 * t + PortDen) \div (2 * PortDen)

\* the port time t >= 0 cut down to a whole number of samples
Whole(t) == t \div PortDen

\* the last trigger changed the target, came with a port time of a sample or
\* more, and no setPort has been called since
GlideUnderWay(h, s) ==
    /\ h.seen /\ h.clean
    /\ h.portAt >= PortDen
    /\ s.value # h.start

\* the output first equals the target on the n-th sample from the trigger
\* on, the trigger sample being the first
ArrivesOn(h, n) ==
    /\ h.reached # 0 => h.reached = n
    /\ h.since >= n => h.reached # 0

GlideAlone(h) ==
    /\ h.seen /\ h.clean
    /\ h.portAt > 0
    /\ IsFinite(h.start)

C10_SnapAtZeroPort ==
    /\ (trhist.seen /\ trhist.clean /\ trhist.portAt <= 0) =>
           trhist.held /\ trdata[BufSize] = trigrand.value
    /\ (tchist.seen /\ tchist.clean /\ tchist.portAt <= 0) =>
           tchist.held /\ tcdata[BufSize] = trigchoice.value

\* a port time of 0, a trigger that changes the target, and the output still
\* on the target in the block after the trigger's
C10_Witness ==
    /\ trhist.seen /\ trhist.clean
    /\ trhist.portAt = 0
    /\ trigrand.value # trhist.start
    /\ trhist.since > BufSize
    /\ trhist.held
    /\ trdata = [i \in Indices |-> trigrand.value]

(* ----------------------- properties of every UGen ----------------------- *)
\* C11: every compute step of a UGen assigns all bufsize samples of its output
\* buffer, for every direction value the public setter accepts, so that no
\* sample of the block before survives (stated on Thresh, whose setDir and
\* constructor take any int).
C11_FullOverwrite ==
    thist.wrote = Indices

(* C12: after any sequence of parameter setter calls (TrigRand setMin and   *)
(* setMax, TrigXnoise setX1 and setX2, TrigEnv setDur, Thresh setThreshold) *)
(* with numbers or streams, the generator bound is the variant named by the *)
(* current tag of each parameter, 'i' for a number and 'a' for a stream; a  *)
(* parameter taken from a number to a stream and back to a number leaves    *)
(* the generator that was bound before the round trip.                      *)
C12_TwoLetter(c) ==
    CASE c = "TrigRand" ->
             <<<<"TrigRand_generate_ii", "TrigRand_generate_ia">>,
               <<"TrigRand_generate_ai", "TrigRand_generate_aa">>>>
      [] c = "TrigXnoise" ->
             <<<<"TrigXnoise_generate_ii", "TrigXnoise_generate_ia">>,
               <<"TrigXnoise_generate_ai", "TrigXnoise_generate_aa">>>>

C13_Variant ==
    <<<<"postprocessing_ii", "postprocessing_ia", "postprocessing_ireva">>,
      <<"postprocessing_ai", "postprocessing_aa", "postprocessing_areva">>,
      <<"postprocessing_revai", "postprocessing_revaa",
        "postprocessing_revareva">>>>

C13_NineVariants ==
    /\ \A c \in {"TrigRand", "Hilbert"} :
           bind[c].muladd_func_ptr =
               C13_Variant[bind[c].modebuffer[0] + 1]
                          [bind[c].modebuffer[1] + 1]
    /\ Cardinality({bind[c].muladd_func_ptr : c \in {"TrigRand", "Hilbert"}}
                   \cup {C13_Variant[m][a] : m, a \in 1..3}) = 9

\* both objects past a rebinding, on two different reversed variants
C13_Witness ==
    /\ bind["TrigRand"].modebuffer[0] = 2
    /\ bind["TrigRand"].modebuffer[1] = 2
    /\ bind["TrigRand"].muladd_func_ptr = "postprocessing_revareva"
    /\ bind["Hilbert"].modebuffer[0] = 1
    /\ bind["Hilbert"].modebuffer[1] = 2
    /\ bind["Hilbert"].muladd_func_ptr = "postprocessing_areva"

(* C14: TrigChoice.setChoice with an argument that is no list reports a     *)
(* type error and changes nothing: the choice array, chSize and the bound   *)
(* functions are as before the call, and later triggers pick from the list  *)
(* that was in force before it.                                             *)
C14_NonListIsNoOp ==
    tcset.err = "TypeError" =>
        /\ trigchoice.choice = tcset.choice
        /\ trigchoice.chSize = tcset.chSize
        /\ bind["TrigChoice"] = tcset.procs
        /\ tcset.trig =>
               \E i \in 1..tcset.chSize :
                   trigchoice.value = tcset.choice[i] * Den

\* the refused call came after a list of another length had replaced the
\* first one, and a trigger has picked since
C14_Witness ==
    /\ tcset.err = "TypeError"
    /\ tcset.trig
    /\ tcset.chSize = 3
    /\ trigchoice.value = Den

(* C15: at every Poisson draw the table drawn from is the one built for the *)
(* current x1 clamped to at least 0.1, and between two draws the table is   *)
(* rebuilt exactly when that clamped x1 has changed, whether through setX1  *)
(* or through the x1 stream: never while it is the same.                    *)
C15_PoissonMemo ==
    /\ xhist.tableOk
    /\ xhist.memoOk

\* draws that kept the table, that rebuilt it after setX1 and that rebuilt
\* it for a new sample of the x1 stream
C15_Witness ==
    /\ xhist.kept
    /\ xhist.viaSet
    /\ xhist.viaStream
    /\ xnoise.poisson_buffer = PoissonBuild(Milli \div 2)

(* C16: looped random walk: every recording phase consists of between 8 and *)
(* 12 consecutive triggers, each recording one new value of the bounded     *)
(* walk, before playback starts.                                            *)
C16_EightToTwelve ==
    /\ xhist.lastRec # 0 => xhist.lastRec \in 8..12
    /\ xhist.phase = "rec" =>
           /\ xhist.recN <= 12
           /\ Len(xhist.rec) = xhist.recN
           /\ \A i \in 1..Len(xhist.rec) : xhist.rec[i] \in 0..(Milli \div 2)

(* C16, amended: every recording phase consists of between 3 and 12         *)
(* consecutive triggers, each recording one new value of the bounded walk,  *)
(* before playback starts.                                                  *)
C16_ThreeToTwelve ==
    /\ xhist.lastRec # 0 => xhist.lastRec \in 3..12
    /\ xhist.phase = "rec" =>
           /\ xhist.recN <= 12
           /\ Len(xhist.rec) = xhist.recN
           /\ \A i \in 1..Len(xhist.rec) : xhist.rec[i] \in 0..(Milli \div 2)

\* a recording phase of 3 triggers has ended and one of 12 is at its last
C16_Witness ==
    /\ xhist.lastRec = 3
    /\ xhist.phase = "rec"
    /\ xhist.recN = 12
    /\ xnoise.loopChoice = 1

(* C17: looped random walk: after a recording phase of L values v1..vL the  *)
(* following triggers return v1..vL in recorded order, exactly R times in   *)
(* full for an R in 1..4 (L * R triggers, whatever x1 and x2 are then), and *)
(* the trigger after that starts a new recording phase; no phase outlasts   *)
(* its L, or L * 4, triggers, so that while triggers keep coming the two    *)
(* phases alternate forever.                                                *)
C17_PlaybackInFull ==
    /\ xhist.playOk
    /\ xhist.countOk
    /\ xhist.phase = "play" => xhist.playN <= 4 * Len(xhist.rec)
    /\ xhist.phase = "rec" => xhist.recN <= xnoise.loopLen

\* the same alternation as a liveness property of SpecLoopsegFair
AlternateForever ==
    /\ []<>(xhist.phase = "rec")
    /\ []<>(xhist.phase = "play")

\* a playback of a walk that moved has gone round four times, with x2 a
\* stream, and the next recording has begun
C17_Witness ==
    /\ xhist.phase = "rec"
    /\ xhist.lastRec = 3
    /\ xhist.recN = 1
    /\ xnoise.loopStop = 4
    /\ xnoise.loop_buffer[0] # xnoise.loop_buffer[2]
    /\ X2IsStream(bind["TrigXnoise"].proc_func_ptr)

(* ----------------------- TrigXnoiseMidi: properties --------------------- *)
\* C18: on every trigger the integer note lies in [range_min, range_max]
\* when 0 <= range_min <= range_max <= 127, whatever the distribution, x1
\* and x2; it lies in [0, 127] for any range; and with scale = 0 the value
\* emitted is that integer.
C18_NoteInRange ==
    mhist.n > 0 =>
        /\ (0 <= mhist.rmin /\ mhist.rmin <= mhist.rmax /\ mhist.rmax <= 127)
               => (mhist.rmin <= mhist.note /\ mhist.note <= mhist.rmax)
        /\ 0 <= mhist.note /\ mhist.note <= 127
        /\ mhist.scale = 0 => mhist.out = mhist.note * Milli

\* the part of C18 that does not depend on the distribution: the note is a
\* MIDI number and scale = 0 emits it
NoteIsMidiNumber ==
    mhist.n > 0 =>
        /\ 0 <= mhist.note /\ mhist.note <= 127
        /\ mhist.scale = 0 => mhist.out = mhist.note * Milli

\* the note stays in an ordered range within 0..127 as long as the
\* distribution returned a value in [0, 1]
NoteInRangeOfUnitValue ==
    (/\ mhist.n > 0
     /\ 0 <= mhist.raw /\ mhist.raw <= Milli
     /\ 0 <= mhist.rmin /\ mhist.rmin <= mhist.rmax /\ mhist.rmax <= 127)
        => (mhist.rmin <= mhist.note /\ mhist.note <= mhist.rmax)

(* -------------------------- TrigEnv: properties ------------------------- *)
\* C19: every trigger sample sets the read position to 0 and makes the
\* envelope active on that same sample, whether or not a read is under way:
\* the sample reads position 0, the output on it is the table value at
\* position 0, and a trigger that comes before the read has ended restarts
\* it from 0.
C19_TriggerRestarts ==
    \A i \in tehist.trig :
        /\ tehist.rpos[i] = 0
        /\ tedata[i] = tablelist[0] * PosDen

\* a trigger on a sample where a read was under way: that sample reads
\* position 0 again
C19_Witness ==
    \E i \in tehist.trig \cap tehist.busy :
        /\ tehist.rpos[i] = 0
        /\ tedata[i] = tablelist[0] * PosDen

\* C20 (as claimed): the end-of-read pulse is written at the sample index
\* that follows the sample on which the read position first exceeds the
\* table length.
C20_PulseFollows ==
    \A i \in tehist.pulse :
        IF i = 1 THEN tehist.overPrev ELSE (i - 1) \in tehist.over

\* C20: the end-of-read pulse is written at the sample index on which the
\* read position first exceeds the table length, that is on the sample of
\* the last read itself.
C20_PulseOnSameSample ==
    tehist.pulse = tehist.over

\* a read that went on for more than one sample has ended, its pulse is in
\* trigsBuffer at the sample of its last read, and the sample before wrote
\* no pulse
C20_Witness ==
    \E i \in tehist.pulse :
        /\ i > 1
        /\ tehist.rpos[i] > 0
        /\ (i - 1) \notin tehist.pulse
        /\ trigenv.trigsBuffer[i] = 1

(* ------------------------- TrigFunc: properties ------------------------- *)
\* C21: a compute step calls the callback exactly once for each input
\* sample equal to 1, in increasing sample order and before the step
\* returns; a block with no such sample makes no call; over a run the calls
\* are as many as the trigger samples processed.
C21_OneCallPerTrigger ==
    /\ Len(tflog) = Cardinality(tfhist.ones)
    /\ \A k \in 1..Len(tflog) : tflog[k].i \in tfhist.ones
    /\ \A k \in 1..(Len(tflog) - 1) : tflog[k].i < tflog[k + 1].i
    /\ tfhist.ones = {} => tflog = <<>>
    /\ tfhist.ncalls = tfhist.ntrig

\* a block with two trigger samples, after an earlier block with one
C21_Witness ==
    /\ Len(tflog) = 2
    /\ tflog[1].i < tflog[2].i
    /\ tfhist.ntrig > 2
    /\ tfhist.ncalls = tfhist.ntrig

(* -------------------------- Hilbert: properties ------------------------- *)
\* C22: for each input sample every one of the 12 sections computes
\* y = coef[j] * (x - y1[j]) + x1[j] from its own memories and then holds in
\* x1[j] the input it just received and in y1[j] the output it just
\* produced, both chains being fed the same input sample; the state and the
\* output of the second chain do not depend on the first chain.
C22_SectionsKeepOwnMemory ==
    /\ \A j \in Sections :
           /\ hilbert.x1[j] = hhist.ref.x1[j]
           /\ hilbert.y1[j] = hhist.ref.y1[j]
    /\ hilbert.buffer_streams = hhist.ref.out

\* the first chain (sections 0..5) and the block it writes are as the
\* recurrence says
FirstChainKeepsOwnMemory ==
    /\ \A j \in 0..5 :
           /\ hilbert.x1[j] = hhist.ref.x1[j]
           /\ hilbert.y1[j] = hhist.ref.y1[j]
    /\ \A k \in 0..(BufSize - 1) :
           hilbert.buffer_streams[k] = hhist.ref.out[k]

\* C23: the tap made with chnl = c holds samples c * bufsize ..
\* c * bufsize + bufsize - 1 of the two-channel buffer of the main filter,
\* and no compute step of a tap changes that buffer: both taps, in either
\* order and on repeated reads, see the block the main filter produced.
C23_TapsReadTheirHalf ==
    /\ hilbert.buffer_streams = hhist.main
    /\ \A c \in {0, 1} :
           hhist.at[c] = hhist.frames /\ hhist.frames > 0 =>
               \A i \in Indices : htap[c][i] = hhist.main[c * BufSize + i - 1]

\* the tap of the second half read first, each tap twice, and the two
\* halves of the block differ
C23_Witness ==
    /\ hhist.order = <<1, 0>>
    /\ hhist.reads[0] = 2 /\ hhist.reads[1] = 2
    /\ htap[0] # htap[1]
    /\ \A c \in {0, 1} :
           \A i \in Indices : htap[c][i] = hilbert.buffer_streams[c * BufSize + i - 1]

(* ----------------- TrigRand range and init: properties ------------------ *)
\* C24: each trigger sets the target to a value in [min, max], for
\* min <= max, min and max being those in force at the trigger sample (the
\* stream's sample at that index when the parameter is a stream); before
\* the first trigger every output sample equals the init value.
C24_TargetInRange ==
    /\ rhist.ntrig > 0 /\ rhist.lo <= rhist.hi =>
           /\ rhist.lo * Den <= trigrand.value
           /\ trigrand.value <= rhist.hi * Den
    /\ rhist.pre
    /\ rhist.computed /\ rhist.ntrig = 0 =>
           \A i \in Indices : trdata[i] = rhist.init * Den

\* a trigger whose target is the max of a max stream, the streams of min
\* and max not constant over the block, after a block with no trigger that
\* put out an init value outside [min, max]
C24_Witness ==
    /\ rhist.ntrig = 1
    /\ rhist.init = Unit + 2
    /\ bind["TrigRand"].proc_func_ptr = "TrigRand_generate_aa"
    /\ rhist.lo = 1 /\ rhist.hi = Unit
    /\ trigrand.value = Unit * Den
    /\ trdata[1] = rhist.init * Den
    /\ trdata[2] = Unit * Den

(* --------------------- Counter backward: properties --------------------- *)
\* C25: Counter in backward mode (dir = 1), constructed with that direction
\* and min <= max fixed: the first trigger emits max, every later trigger
\* emits the previous value minus 1, and the trigger after the one that
\* emitted min emits max again.
C25_BackwardCycle ==
    (CounterFixed /\ counter.dir = 1 /\ counter.min <= counter.max) =>
        /\ (chist.prev = <<>> /\ Emits # <<>>) => Emits[1] = counter.max
        /\ \A j \in Pairs(Emitted) :
               Emitted[j + 1] = IF Emitted[j] = counter.min
                                THEN counter.max ELSE Emitted[j] - 1

\* backward mode has emitted min and then wrapped to a greater max
C25_Witness ==
    /\ CounterFixed /\ counter.dir = 1 /\ counter.min < counter.max
    /\ \E j \in Pairs(Emitted) :
           Emitted[j] = counter.min /\ Emitted[j + 1] = counter.max

(* ---------------------- TrigEnvTrig: properties ------------------------- *)
\* C26: with the TrigEnv and its tap each computed once a block, every read
\* that came to its end puts exactly one sample of 1.0 in the output of the
\* tap, at the index where it ended, a read cut short by a trigger puts
\* none, every other sample of the tap is 0.0, and no pulse is put out
\* twice: the tap leaves trigsBuffer empty; this with the tap computed
\* before the TrigEnv in a block as well as after it.
C26_OnePulsePerRead ==
    /\ \A i \in Indices : envtrig[i] = IF i \in tphist.shown THEN 1 ELSE 0
    /\ tphist.got + Cardinality(tphist.fresh) = tphist.done
    /\ tphist.turn = "env" =>
           tphist.fresh = {} /\ trigenv.trigsBuffer = ZeroBlock

\* the tap computed first in every block: a read was cut short, a later
\* one ended, the tap has put out its pulse and then a block of zeros
C26_Witness ==
    /\ tphist.first = "tap"
    /\ tphist.cut > 0
    /\ tphist.done = 1 /\ tphist.got = 1
    /\ tphist.turn = "env" /\ tphist.blocks = MaxTapBlocks
    /\ envtrig = ZeroBlock

(* ------------------- TrigEnv termination: properties -------------------- *)
\* C27: after a trigger with a duration of D = sampleRate * d > 0 samples on
\* a table of size S > 0 and no trigger after it, the envelope is inactive
\* once floor(D) + 1 samples have been computed, the trigger sample being
\* the first; on every sample on which it is inactive, before the first
\* trigger and after the end of a read, the output before mul and add is 0.
C27_ReadEndsInTime ==
    /\ trigenv.current_dur > 0 =>
           /\ tphist.age <= trigenv.current_dur + 1
           /\ trigenv.active = 1 => tphist.age <= trigenv.current_dur
    /\ \A i \in Indices : tehist.rpos[i] = -1 => tedata[i] = 0

\* a read of the longest duration has lasted MaxDur + 1 samples, across a
\* block boundary, and is over; the sample after its end put out 0
C27_Witness ==
    /\ trigenv.current_dur = MaxDur
    /\ tphist.age = MaxDur + 1
    /\ trigenv.active = 0
    /\ tehist.trig = {}
    /\ tehist.over = {1}
    /\ tehist.rpos[2] = -1 /\ tedata[2] = 0

(* ------------------ glide completion: properties ------------------------ *)
\* C28: after a trigger that no trigger follows, the output of TrigRand (the
\* same code as TrigChoice) comes to equal the target and stays equal to it,
\* for every port time, a port time of less than one sample included, and
\* with setPort called between blocks while the glide is under way; the
\* output does not go past the target (stated on the last sample of every
\* block, which lies between the output before the trigger and the target).
C28_GlideCompletes ==
    /\ <>[](trhist.seen => trdata[BufSize] = trigrand.value)
    /\ [](trhist.seen =>
              Between(trdata[BufSize], trhist.start, trigrand.value))

(* ------------------ Thresh generators: properties ----------------------- *)
\* C29: the generator that reads the threshold from a stream, given a stream
\* that holds t on every sample, and the generator that reads the number t
\* put out the same samples and leave the same latch, for dir 0, 1 and 2.
C29_GeneratorsAgree ==
    /\ twin.adata = twin.idata
    /\ twin.a.ready = twin.i.ready

\* the two generators agree as long as every block was computed with dir 0
\* or 1
GeneratorsAgreeOneWay ==
    ~twin.both => (twin.adata = twin.idata /\ twin.a.ready = twin.i.ready)

(* -------------------- TrigChoice index: properties ---------------------- *)
\* C30: on every trigger the index TrigChoice computes lies in
\* 0 .. chSize - 1, for every value rand() returns, the greatest included,
\* and for every list setChoice accepts, the empty list included.
C30_IndexInList ==
    \A x \in ixhist.idx : 0 <= x /\ x < ixhist.chSize

\* the index is never above chSize: it equals chSize when the ratio
\* rand() / RAND_MAX is 1, and with an empty list
IndexBelowSizeElsewhere ==
    \A x \in ixhist.idx : x <= ixhist.chSize

(* ------------------ Counter under setters: properties ------------------- *)
\* C31: Counter in forward or backward mode, with min <= max at construction
\* and after every setter call: every value a compute step emits on a
\* trigger lies in the [min, max] in force during that step, whatever
\* setMin, setMax and setDir calls came between the blocks before it.  (A
\* step that leaves the count of setter calls alone is a compute step.)
C31_EmitsInRangeAfterSetters ==
    [][(chist'.nset = chist.nset /\ counter.dir \in {0, 1}) =>
           \A i \in chist'.ones :
               counter.min <= cdata'[i] /\ cdata'[i] <= counter.max]_vars

\* min <= max in every state of the specification
CounterStaysOrdered == counter.min <= counter.max

\* as long as no setter has been called the emitted values are in range
EmitsInRangeWhileFixed ==
    (CounterFixed /\ counter.dir \in {0, 1}) =>
        \A i \in chist.ones :
            counter.min <= cdata[i] /\ cdata[i] <= counter.max

(* --------------------- TrigEnv: the bounds of a read --------------------- *)
\* C32: on every sample on which a read is active the integer table index
\* ipart = (int)pointerPos satisfies 0 <= ipart < size, so that
\* tablelist[ipart] and tablelist[ipart + 1] lie in the table or on its one
\* guard point, for every duration (also when the increments land exactly
\* on the table length).
C32_ReadInsideTable ==
    \A i \in Indices :
        tehist.rpos[i] # -1 =>
            /\ 0 <= tehist.rpos[i] \div PosDen
            /\ tehist.rpos[i] \div PosDen < TableSize

\* the index never passes the guard point: 0 <= ipart <= size
ReadUpToGuard ==
    \A i \in Indices :
        tehist.rpos[i] # -1 =>
            /\ 0 <= tehist.rpos[i] \div PosDen
            /\ tehist.rpos[i] \div PosDen <= TableSize

(* ------------------- TrigXnoise: the size of the table ------------------- *)
\* C33: at every Poisson draw (lastPoissonX1 is no longer the -99 of the
\* constructor) the table holds at least 1 and at most 2000 filled slots,
\* so that rand() % poisson_tab is defined and addresses a filled slot, for
\* every x1 >= 0.1, large ones included.
C33_TableFilled ==
    (xnoise.type_func_ptr = "TrigXnoise_poisson" /\ xnoise.lastPoissonX1 >= 0)
        => (1 <= xnoise.poisson_tab /\ xnoise.poisson_tab <= 2000)

\* the table never holds more than the 2000 slots of poisson_buffer
TableWithinBuffer == xnoise.poisson_tab <= 2000

\* for the x1 up to 0.5 the table holds at least one slot at every draw
TableFilledNearby ==
    (xnoise.lastPoissonX1 >= 0 /\ xnoise.lastPoissonX1 <= Milli \div 2)
        => 1 <= xnoise.poisson_tab

(* --------------- TrigXnoise: the indices of the looped walk -------------- *)
\* C34: in every reachable state 3 <= loopLen <= 12; every index the looped
\* walk writes at in loop_buffer is below loopLen, every index it reads at
\* is below loopLen and is one the latest recording phase wrote at (and
\* the value read is the one recorded there), also when setType switches
\* between the walk and the looped walk at any point.
C34_LoopIndices ==
    /\ 3 <= xnoise.loopLen /\ xnoise.loopLen <= 12
    /\ xhist.idxOk
    /\ xhist.slotOk
    /\ xhist.playOk
    /\ xnoise.loopCountRec <= xnoise.loopLen
    /\ xnoise.loopCountPlay < xnoise.loopLen

\* setType has switched the looped walk back on in the middle of a
\* recording or of a playback, after a trigger of the walk that moved
\* walkerValue, and a playback has read the slot the recording wrote last
C34_Witness ==
    /\ xhist.cut
    /\ xnoise.type_func_ptr = "TrigXnoise_loopseg"
    /\ xhist.phase = "play"
    /\ xhist.playN = Cardinality(xhist.slots)
    /\ xhist.nwalk > 0
    /\ xdata[BufSize] = xhist.rec[Len(xhist.rec)]

(* ------------------------ TrigXnoise: the walk --------------------------- *)
\* C35: in walker mode the value emitted on every trigger lies in [0, x1],
\* x1 being the one in force at that trigger, for any x1 >= 0 and any step
\* parameter x2 (an x2 below 0.002 is raised to 0.002, so that the modulus
\* of the step is never 0), also when x1 is lowered between triggers.
C35_WalkInRange ==
    /\ xhist.walkOk
    /\ xhist.stepOk

\* a trigger emitted 0.5, which the first sample of the block holds; a later
\* trigger found x1 lowered to below that and emitted the lowered x1; and a
\* trigger found x2 below 0.002
C35_Witness ==
    /\ xhist.capped
    /\ xhist.raised
    /\ xdata[1] = Milli \div 2
    /\ xdata[BufSize] = xnoise.xx1
    /\ xnoise.xx1 < Milli \div 2
    /\ xnoise.walkerValue = xnoise.xx1

(* -------------------- TrigXnoiseMidi: the central key -------------------- *)
\* C36: in every reachable state, from construction on and after any
\* setRange call, centralkey equals (range_min + range_max) / 2 in integer
\* division, so that with scale = 2 the ratio of the note at the middle of
\* the current range is exactly 1.
C36_CentralKey ==
    /\ midi.centralkey = IntCast(midi.range_min + midi.range_max, 2)
    /\ (mhist.n > 0 /\ mhist.scale = 2
          /\ mhist.rmin = midi.range_min /\ mhist.rmax = midi.range_max
          /\ mhist.note = IntCast(midi.range_min + midi.range_max, 2))
           => mhist.out = Milli

\* once setRange has been called centralkey is the middle of the range
CentralKeyOnceSet ==
    <<midi.range_min, midi.range_max>> \in RangeVals =>
        midi.centralkey = IntCast(midi.range_min + midi.range_max, 2)

(* ------------------- TrigXnoiseMidi: setScale rejected ------------------- *)
\* the argument is one of the ints 0, 1, 2
ScaleArgValid(a) == a.isInt /\ a.hi = 0 /\ a.lo \in {0, 1, 2}

\* the step is a call setScale(a)
IsSetScale(a) ==
    /\ midi' = MidiSetScale(midi, a)
    /\ UNCHANGED <<mdata, mhist>>

\* C37: a setScale call with an integer outside {0, 1, 2}, or with an
\* object that is no integer, leaves the scale and every other field as
\* they were, so that later triggers use the scale set before.
C37_BadScaleIsNoOp ==
    [][\A a \in ScaleArgs :
           (~ScaleArgValid(a) /\ IsSetScale(a)) => midi' = midi]_vars

\* the same for the arguments that are no int or fit the int tmp
BadScaleIsNoOpWithinInt ==
    [][\A a \in ScaleArgs :
           (~ScaleArgValid(a) /\ a.hi = 0 /\ IsSetScale(a))
               => midi' = midi]_vars

=============================================================================
